---- MODULE Spec2Model ----
(***************************************************************************)
(* The plan -> validate -> gate -> execute -> audit pipeline of rag-k8s:   *)
(* K8sExecTool.execute (agent/tool.py), MLXPlanner (agent/plan.py),        *)
(* CommandValidator (runtime/validate.py), safe_exec (runtime/exec.py)     *)
(* and AgentLogger (runtime/logging.py).                                   *)
(*                                                                         *)
(* Python strings are TLA+ strings, handled with Len, SubSeq and \o as the *)
(* code handles them with len, slices and +.  A value that may be None is  *)
(* a sequence of length at most one: <<>> is None, <<v>> is v.             *)
(***************************************************************************)
EXTENDS Integers, Sequences, FiniteSets, TLC

(***************************************************************************)
(* Bounds of the model.                                                    *)
(***************************************************************************)
\* Number of execute() invocations one behaviour makes, one after the other.
MaxOps == 2

\* Longest short text handed to _digest on its own, and largest small max_len.
MaxTextLen == 12

MaxCap == 8

\* Number of threads that call log_action at the same time.
NumWriters == 3

\* Number of request threads of the server.
NumHandlers == 2

(***************************************************************************)
(* Python's str and list primitives, as the code uses them.                *)
(***************************************************************************)
None == <<>>

Some(v) == <<v>>

\* Python truthiness of an optional string: None and "" are falsy.
Truthy(opt) == opt # None /\ opt[1] # ""

IsSpace(c) == c \in {" ", "\t", "\n"}

StartsWith(s, p) == Len(s) >= Len(p) /\ SubSeq(s, 1, Len(p)) = p

\* Index of the first occurrence of sub in s, 0 when there is none (sub # "").
Find(s, sub) ==
    LET idx == {i \in 1..(Len(s) - Len(sub) + 1) : SubSeq(s, i, i + Len(sub) - 1) = sub}
    IN  IF idx = {} THEN 0 ELSE CHOOSE i \in idx : \A j \in idx : i <= j

\* sub in s
Contains(s, sub) == Find(s, sub) # 0

RECURSIVE LStrip(_)
LStrip(s) ==
    IF s # "" /\ IsSpace(SubSeq(s, 1, 1)) THEN LStrip(SubSeq(s, 2, Len(s))) ELSE s

RECURSIVE RStrip(_)
RStrip(s) ==
    IF s # "" /\ IsSpace(SubSeq(s, Len(s), Len(s))) THEN RStrip(SubSeq(s, 1, Len(s) - 1)) ELSE s

\* s.strip()
Strip(s) == RStrip(LStrip(s))

\* s.rstrip(ch): every trailing ch is removed.
RECURSIVE RStripChar(_, _)
RStripChar(s, ch) ==
    IF s # "" /\ SubSeq(s, Len(s), Len(s)) = ch
    THEN RStripChar(SubSeq(s, 1, Len(s) - 1), ch)
    ELSE s

\* s.replace(old, new, 1)
ReplaceFirst(s, old, new) ==
    LET i == Find(s, old)
    IN  IF i = 0 THEN s
        ELSE SubSeq(s, 1, i - 1) \o new \o SubSeq(s, i + Len(old), Len(s))

\* s.replace(old, new): every non-overlapping occurrence, left to right.
RECURSIVE ReplaceAll(_, _, _)
ReplaceAll(s, old, new) ==
    LET i == Find(s, old)
    IN  IF i = 0 THEN s
        ELSE SubSeq(s, 1, i - 1) \o new \o ReplaceAll(SubSeq(s, i + Len(old), Len(s)), old, new)

\* s.split(): the maximal runs of non-whitespace characters, in order.
RECURSIVE SplitAcc(_, _, _, _)
SplitAcc(s, i, cur, acc) ==
    IF i > Len(s) THEN (IF cur = "" THEN acc ELSE Append(acc, cur))
    ELSE LET c == SubSeq(s, i, i)
         IN  IF IsSpace(c)
             THEN SplitAcc(s, i + 1, "", IF cur = "" THEN acc ELSE Append(acc, cur))
             ELSE SplitAcc(s, i + 1, cur \o c, acc)

Split(s) == SplitAcc(s, 1, "", <<>>)

\* part.split("/")[0]: the text before the first "/".
BeforeSlash(part) ==
    LET i == Find(part, "/") IN IF i = 0 THEN part ELSE SubSeq(part, 1, i - 1)

\* x in list
InList(x, list) == \E i \in 1..Len(list) : list[i] = x

\* sep.join(list)
RECURSIVE Join(_, _)
Join(sep, list) ==
    IF list = <<>> THEN ""
    ELSE IF Len(list) = 1 THEN list[1]
    ELSE list[1] \o sep \o Join(sep, Tail(list))

\* The text an f-string gives for a list of strings: ['a', 'b'].
RECURSIVE QuoteAll(_)
QuoteAll(list) ==
    IF list = <<>> THEN <<>> ELSE <<"'" \o list[1] \o "'">> \o QuoteAll(Tail(list))

ListRepr(list) == "[" \o Join(", ", QuoteAll(list)) \o "]"

(***************************************************************************)
(* runtime/validate.py                                                     *)
(***************************************************************************)
\* ValidationResult(valid, reasons, modified_command=None)
ValidationResult(valid, reasons, modified_command) ==
    [valid |-> valid, reasons |-> reasons, modified_command |-> modified_command]

ResourceNouns ==
    <<"pod", "deployment", "statefulset", "daemonset", "node", "namespace",
      "service", "ingress", "configmap", "secret", "event">>

\* CommandValidator._extract_resource_from_parts
RECURSIVE extract_resource_from_parts(_)
extract_resource_from_parts(parts) ==
    IF parts = <<>> THEN None
    ELSE LET part == Head(parts)
         IN  IF StartsWith(part, "-") THEN extract_resource_from_parts(Tail(parts))
             ELSE IF Contains(part, "/") THEN Some(BeforeSlash(part))
             ELSE IF InList(part, ResourceNouns) \/ InList(RStripChar(part, "s"), ResourceNouns)
                  THEN Some(RStripChar(part, "s"))
             ELSE extract_resource_from_parts(Tail(parts))

\* The command with its kubectl or flux prefix removed.
StripPrefix(command) ==
    LET cmd == Strip(command)
    IN  IF StartsWith(cmd, "kubectl") THEN Strip(ReplaceFirst(cmd, "kubectl", ""))
        ELSE IF StartsWith(cmd, "flux") THEN Strip(ReplaceFirst(cmd, "flux", ""))
        ELSE cmd

\* parts[n:] of a Python list, n counted from 0.
DropFirst(parts, n) == SubSeq(parts, n + 1, Len(parts))

\* CommandValidator._extract_verb_resource: <<verb, resource>>, each optional.
\* verb_map maps every verb it lists to itself and get() defaults to the verb.
extract_verb_resource(command) ==
    LET cmd   == StripPrefix(command)
        parts == Split(cmd)
    IN  IF StartsWith(cmd, "rollout") /\ Len(parts) >= 2
        THEN <<Some("rollout"), extract_resource_from_parts(DropFirst(parts, 2))>>
        ELSE IF parts = <<>> THEN <<None, None>>
        ELSE <<Some(parts[1]), extract_resource_from_parts(DropFirst(parts, 1))>>

cluster_scoped_resources ==
    <<"node", "namespace", "persistentvolume", "storageclass", "clusterrole",
      "clusterrolebinding">>

\* rbac.get("namespace_scoped", True)
NamespaceScoped(rbac) ==
    IF "namespace_scoped" \in DOMAIN rbac THEN rbac.namespace_scoped ELSE TRUE

\* rbac.get("forbidden_combinations", [])
ForbiddenCombinations(rbac) ==
    IF "forbidden_combinations" \in DOMAIN rbac THEN rbac.forbidden_combinations ELSE <<>>

VerbReason(verb, rbac) ==
    "Verb '" \o verb \o "' not in allowlist: " \o ListRepr(rbac.allowed_verbs)

ResourceReason(resource, rbac) ==
    "Resource '" \o resource \o "' not in allowlist: " \o ListRepr(rbac.allowed_resources)

NamespaceReason == "Command must include namespace (-n or --namespace)"

PrefixReason == "Command must start with 'kubectl' or 'flux'"

GuardrailReason == "Replaced 'delete pod' with safer alternative suggestion"

GuardrailComment == "# BLOCKED: Use 'rollout restart deployment' instead"

\* The reasons of the forbidden-combination loop, in table order.
RECURSIVE ForbiddenReasons(_, _, _)
ForbiddenReasons(table, verb, resource) ==
    IF table = <<>> THEN <<>>
    ELSE (IF verb = Some(table[1].verb) /\ resource = Some(table[1].resource)
          THEN <<"Forbidden: " \o table[1].reason>> ELSE <<>>)
         \o ForbiddenReasons(Tail(table), verb, resource)

\* command.strip().startswith("gh"): accepted before any other check.
GhShortcut(command) == StartsWith(Strip(command), "gh")

\* The prefix test that lets a command on to the verb and resource checks.
HasCliPrefix(command) ==
    StartsWith(Strip(command), "kubectl") \/ StartsWith(Strip(command), "flux")

\* PolicyReasons that stops at the first check that fails.
PolicyReasonsStopAtFirst(command, rbac) ==
    LET vr       == extract_verb_resource(command)
        verb     == vr[1]
        resource == vr[2]
        has_namespace ==
            Contains(command, "-n ") \/ Contains(command, "--namespace")
                \/ Contains(command, "--namespace=")
        forbidden == ForbiddenReasons(ForbiddenCombinations(rbac), verb, resource)
    IN  IF Truthy(verb) /\ ~InList(verb[1], rbac.allowed_verbs)
        THEN <<VerbReason(verb[1], rbac)>>
        ELSE IF Truthy(resource) /\ ~InList(resource[1], rbac.allowed_resources)
        THEN <<ResourceReason(resource[1], rbac)>>
        ELSE IF NamespaceScoped(rbac) /\ ~has_namespace
                /\ ~(resource # None /\ InList(resource[1], cluster_scoped_resources))
        THEN <<NamespaceReason>>
        ELSE IF forbidden # <<>> THEN <<forbidden[1]>>
        ELSE IF verb = Some("delete") /\ resource = Some("pod") THEN <<GuardrailReason>>
        ELSE <<>>

\* The checks of CommandValidator.validate after the prefix test.
PolicyReasons(command, rbac) ==
    LET vr       == extract_verb_resource(command)
        verb     == vr[1]
        resource == vr[2]
        has_namespace ==
            Contains(command, "-n ") \/ Contains(command, "--namespace")
                \/ Contains(command, "--namespace=")
    IN  (IF Truthy(verb) /\ ~InList(verb[1], rbac.allowed_verbs)
         THEN <<VerbReason(verb[1], rbac)>> ELSE <<>>)
        \o (IF Truthy(resource) /\ ~InList(resource[1], rbac.allowed_resources)
            THEN <<ResourceReason(resource[1], rbac)>> ELSE <<>>)
        \o (IF NamespaceScoped(rbac) /\ ~has_namespace
               /\ ~(resource # None /\ InList(resource[1], cluster_scoped_resources))
            THEN <<NamespaceReason>> ELSE <<>>)
        \o ForbiddenReasons(ForbiddenCombinations(rbac), verb, resource)
        \o (IF verb = Some("delete") /\ resource = Some("pod")
            THEN <<GuardrailReason>> ELSE <<>>)

\* The guardrail's rewrite of the command (the command itself when it does not apply).
ModifiedCommand(command) ==
    LET vr == extract_verb_resource(command)
    IN  IF vr[1] = Some("delete") /\ vr[2] = Some("pod")
        THEN ReplaceAll(command, "delete pod", GuardrailComment)
        ELSE command

\* validate with the verdict of the prefix test inverted: True for False.
validateAcceptsUnprefixed(command, namespace, rbac) ==
    IF GhShortcut(command) THEN ValidationResult(TRUE, <<>>, None)
    ELSE IF ~HasCliPrefix(command) THEN ValidationResult(TRUE, <<PrefixReason>>, None)
    ELSE LET reasons  == PolicyReasons(command, rbac)
             modified == ModifiedCommand(command)
         IN  ValidationResult(Len(reasons) = 0, reasons,
                              IF modified # command THEN Some(modified) ELSE None)

\* validate with the prefix reason accumulated like the others, the checks
\* after it still made.
validatePrefixNotFinal(command, namespace, rbac) ==
    IF GhShortcut(command) THEN ValidationResult(TRUE, <<>>, None)
    ELSE LET reasons  == (IF ~HasCliPrefix(command) THEN <<PrefixReason>> ELSE <<>>)
                            \o PolicyReasons(command, rbac)
             modified == ModifiedCommand(command)
         IN  ValidationResult(Len(reasons) = 0, reasons,
                              IF modified # command THEN Some(modified) ELSE None)

\* validate with modified_command returned whether or not it differs from
\* the command.
validateModifiedAlways(command, namespace, rbac) ==
    IF GhShortcut(command) THEN ValidationResult(TRUE, <<>>, None)
    ELSE IF ~HasCliPrefix(command) THEN ValidationResult(FALSE, <<PrefixReason>>, None)
    ELSE LET reasons  == PolicyReasons(command, rbac)
         IN  ValidationResult(Len(reasons) = 0, reasons, Some(ModifiedCommand(command)))

\* validate with the namespace argument read: a -n flag that names another
\* namespace is a reason.
validateNamespaceCompared(command, namespace, rbac) ==
    IF GhShortcut(command) THEN ValidationResult(TRUE, <<>>, None)
    ELSE IF ~HasCliPrefix(command) THEN ValidationResult(FALSE, <<PrefixReason>>, None)
    ELSE LET reasons  == PolicyReasons(command, rbac)
                            \o (IF Contains(command, "-n ")
                                    /\ ~Contains(command, "-n " \o namespace)
                                THEN <<"Namespace differs from the requested one">>
                                ELSE <<>>)
             modified == ModifiedCommand(command)
         IN  ValidationResult(Len(reasons) = 0, reasons,
                              IF modified # command THEN Some(modified) ELSE None)

\* CommandValidator.validate(command, namespace) under the loaded policy rbac.
validate(command, namespace, rbac) ==
    IF GhShortcut(command) THEN ValidationResult(TRUE, <<>>, None)
    ELSE IF ~HasCliPrefix(command) THEN ValidationResult(FALSE, <<PrefixReason>>, None)
    ELSE LET reasons  == PolicyReasons(command, rbac)
             modified == ModifiedCommand(command)
         IN  ValidationResult(Len(reasons) = 0, reasons,
                              IF modified # command THEN Some(modified) ELSE None)

(***************************************************************************)
(* agent/plan.py.  The text the generation function returns is a sequence  *)
(* of symbols: an opening brace, a closing brace, or a brace-free chunk (a *)
(* complete JSON member "k": "v", a key "k": that an object follows, or    *)
(* other text).  The regular expression of _parse_json_response only       *)
(* tells braces from other characters, so it is computed exactly on these. *)
(***************************************************************************)
LB == [t |-> "{"]

RB == [t |-> "}"]

Member(k, v) == [t |-> "member", k |-> k, v |-> v]

Key(k) == [t |-> "key", k |-> k]

Prose(s) == [t |-> "prose", s |-> s]

IsBrace(sym) == sym.t \in {"{", "}"}

\* The inner group \{[^{}]*\} tried at resp[j] = LB: the index of its closing
\* brace, 0 when the next brace is not a closing one.
InnerClose(resp, j) ==
    LET braces == {k \in (j + 1)..Len(resp) : IsBrace(resp[k])}
    IN  IF braces = {} THEN 0
        ELSE LET k == CHOOSE k \in braces : \A m \in braces : k <= m
             IN  IF resp[k] = RB THEN k ELSE 0

\* (?:[^{}]|(?:\{[^{}]*\}))*\} tried from index j, just after an opening brace:
\* the index of the brace that ends the match, 0 when there is no match.
RECURSIVE MatchEnd(_, _)
MatchEnd(resp, j) ==
    IF j > Len(resp) THEN 0
    ELSE IF resp[j] = RB THEN j
    ELSE IF resp[j] = LB
         THEN LET k == InnerClose(resp, j)
              IN  IF k = 0 THEN 0 ELSE MatchEnd(resp, k + 1)
    ELSE MatchEnd(resp, j + 1)

\* re.search(r'\{(?:[^{}]|(?:\{[^{}]*\}))*\}', response): the leftmost match.
re_search(resp) ==
    LET starts == {i \in 1..Len(resp) : resp[i] = LB /\ MatchEnd(resp, i + 1) # 0}
    IN  IF starts = {} THEN None
        ELSE LET i == CHOOSE i \in starts : \A m \in starts : i <= m
             IN  Some(SubSeq(resp, i, MatchEnd(resp, i + 1)))

\* The JSON text of an inner object, which stands for the dict json.loads builds.
RECURSIVE MemberTexts(_)
MemberTexts(syms) ==
    IF syms = <<>> THEN <<>>
    ELSE <<"\"" \o syms[1].k \o "\": \"" \o syms[1].v \o "\"">> \o MemberTexts(Tail(syms))

ObjectText(syms) == "{" \o Join(", ", MemberTexts(syms)) \o "}"

\* Position n of an object body lies inside an inner object: an opening brace
\* before it is not yet closed.
Inside(items, n) ==
    \E j \in 1..(n - 1) : items[j] = LB /\ \A m \in (j + 1)..(n - 1) : items[m] # RB

\* json.loads accepts the body: members, and keys each followed by an inner
\* object of members; other text or a brace out of place is a JSONDecodeError.
JsonValid(items) ==
    \A n \in 1..Len(items) :
        /\ items[n].t # "prose"
        /\ items[n].t = "key" => ~Inside(items, n) /\ n < Len(items) /\ items[n + 1] = LB
        /\ items[n] = LB => n > 1 /\ items[n - 1].t = "key"

\* The value of the top-level member at position n: its string, or the inner
\* object that follows the key.
MemberValue(items, n) ==
    IF items[n].t = "member" THEN items[n].v
    ELSE ObjectText(SubSeq(items, n + 2, InnerClose(items, n + 1) - 1))

\* json.loads(json_str) of a matched object: a dict (a later key wins), or None.
json_loads(json_str) ==
    LET items == SubSeq(json_str, 2, Len(json_str) - 1)
        tops  == {n \in 1..Len(items) : ~IsBrace(items[n]) /\ ~Inside(items, n)}
        last(k) == CHOOSE n \in tops :
                       items[n].k = k /\ \A m \in tops : items[m].k = k => m <= n
    IN  IF ~JsonValid(items) THEN None
        ELSE Some([k \in {items[n].k : n \in tops} |-> MemberValue(items, last(k))])

RequiredKeys == {"intent", "namespace", "command", "summary"}

\* ExtractPlan without the test of the required keys: any object json.loads
\* accepts is returned.
ExtractPlanAnyObject(resp) ==
    LET json_match == re_search(resp)
    IN  IF json_match = None THEN None ELSE json_loads(json_match[1])

\* The check _parse_json_response applies to a response, the first and the
\* retry alike: the plan it returns, None when it goes on.
ExtractPlan(resp) ==
    LET json_match == re_search(resp)
    IN  IF json_match = None THEN None
        ELSE LET parsed == json_loads(json_match[1])
             IN  IF parsed = None THEN None
                 ELSE IF RequiredKeys \subseteq DOMAIN parsed[1] THEN parsed
                 ELSE None

FallbackPlan ==
    [intent |-> "unknown", namespace |-> "default",
     command |-> "# Failed to generate valid command",
     summary |-> "JSON generation failed",
     error |-> "Could not parse valid JSON from model output"]

\* user_goal of plan_command
UserGoal(intent, resource, namespace, name, selector) ==
    intent \o " " \o resource \o " '" \o name \o "' in namespace '" \o namespace \o "'"
        \o (IF Truthy(selector) THEN " with selector '" \o selector[1] \o "'" ELSE "")

\* The prompt of plan_command: the fixed system prompt, the context (or its
\* placeholder) and the user goal; the retry prompt appends the correction.
Prompt(user_goal, context, correction) ==
    [system |-> "SYSTEM_PROMPT",
     context |-> IF context # "" THEN context ELSE "(no context)",
     user_goal |-> user_goal,
     correction |-> correction]

\* The generate() call of plan_command: the sampler, the logits processors.
FirstCall(prompt) ==
    [prompt |-> prompt, max_tokens |-> 256, temp |-> "0.0", top_p |-> "1.0",
     repetition_penalty |-> Some("1.05")]

\* The generate() call of the retry: a sampler and no logits processors.
RetryCall(prompt) ==
    [prompt |-> prompt, max_tokens |-> 256, temp |-> "0.0", top_p |-> "1.0",
     repetition_penalty |-> None]

(***************************************************************************)
(* runtime/exec.py.  What subprocess.run does is the environment's choice: *)
(* the process completes (exit code and output), the timeout expires, or   *)
(* another exception is raised.  Durations are in hundredths of a second.  *)
(***************************************************************************)
StdoutCap == 4000

StderrCap == 2000

DefaultTimeout == 15

TruncationMarker == "\n... (truncated)"

\* safe_exec without its except Exception clause: an exception other than
\* TimeoutExpired leaves the function, which returns nothing.
safe_execTimeoutOnly(cmd, timeout, outcome) ==
    IF outcome.kind = "completed"
    THEN [code      |-> outcome.returncode,
          stdout    |-> IF Len(outcome.stdout) > StdoutCap
                        THEN SubSeq(outcome.stdout, 1, StdoutCap) \o TruncationMarker
                        ELSE outcome.stdout,
          stderr    |-> IF Len(outcome.stderr) > StderrCap
                        THEN SubSeq(outcome.stderr, 1, StderrCap) \o TruncationMarker
                        ELSE outcome.stderr,
          duration  |-> outcome.elapsed,
          truncated |-> Len(outcome.stdout) > StdoutCap \/ Len(outcome.stderr) > StderrCap]
    ELSE IF outcome.kind = "timeout"
    THEN [code |-> -1, stdout |-> "",
          stderr |-> "Command timed out after " \o ToString(timeout) \o "s",
          duration |-> outcome.elapsed, truncated |-> FALSE, timeout |-> TRUE]
    ELSE [raised |-> outcome.message]

\* safe_exec(cmd, timeout) given what subprocess.run did.
safe_exec(cmd, timeout, outcome) ==
    IF outcome.kind = "completed"
    THEN [code      |-> outcome.returncode,
          stdout    |-> IF Len(outcome.stdout) > StdoutCap
                        THEN SubSeq(outcome.stdout, 1, StdoutCap) \o TruncationMarker
                        ELSE outcome.stdout,
          stderr    |-> IF Len(outcome.stderr) > StderrCap
                        THEN SubSeq(outcome.stderr, 1, StderrCap) \o TruncationMarker
                        ELSE outcome.stderr,
          duration  |-> outcome.elapsed,
          truncated |-> Len(outcome.stdout) > StdoutCap \/ Len(outcome.stderr) > StderrCap]
    ELSE IF outcome.kind = "timeout"
    THEN [code |-> -1, stdout |-> "",
          stderr |-> "Command timed out after " \o ToString(timeout) \o "s",
          duration |-> outcome.elapsed, truncated |-> FALSE, timeout |-> TRUE]
    ELSE [code |-> -1, stdout |-> "",
          stderr |-> "Execution error: " \o outcome.message,
          duration |-> outcome.elapsed, truncated |-> FALSE, error |-> outcome.message]

(***************************************************************************)
(* runtime/logging.py.  The log file is the sequence of its lines, each    *)
(* the record json.dumps wrote (the timestamp, which no decision reads, is *)
(* left out).                                                              *)
(***************************************************************************)
DigestMaxLen == 200

\* AgentLogger._digest(text, max_len)
digest(text, max_len) ==
    IF text = "" THEN ""
    ELSE IF Len(text) <= max_len THEN text
    ELSE LET half == max_len \div 2
         IN  SubSeq(text, 1, half) \o " [...] "
                 \o (IF half = 0 THEN text ELSE SubSeq(text, Len(text) - half + 1, Len(text)))

\* dict.get(key): None when the key is missing.
Get(dict, key) == IF key \in DOMAIN dict THEN Some(dict[key]) ELSE None

\* result.get(key, False) of a flag
Flag(dict, key) == IF key \in DOMAIN dict THEN dict[key] ELSE FALSE

\* The log_entry of AgentLogger.log_action.
LogEntry(op_id, plan_json, cmd, res, level) ==
    [level         |-> level,
     operation_id  |-> op_id,
     intent        |-> Get(plan_json, "intent"),
     namespace     |-> Get(plan_json, "namespace"),
     target        |-> Get(plan_json, "target"),
     command       |-> cmd,
     exit_code     |-> res.code,
     duration      |-> res.duration,
     stdout_digest |-> digest(res.stdout, DigestMaxLen),
     stderr_digest |-> digest(res.stderr, DigestMaxLen),
     truncated     |-> Flag(res, "truncated"),
     timeout       |-> Flag(res, "timeout")]

\* json.dumps of a string: quoted, with backslash, quote, newline and tab
\* escaped, so that the text of a record holds no newline character.
JsonEscape(str) ==
    ReplaceAll(ReplaceAll(ReplaceAll(ReplaceAll(str, "\\", "\\\\"), "\"", "\\\""),
                          "\n", "\\n"),
               "\t", "\\t")

JsonString(str) == "\"" \o JsonEscape(str) \o "\""

JsonOptString(opt) == IF opt = None THEN "null" ELSE JsonString(opt[1])

JsonBoolean(b) == IF b THEN "true" ELSE "false"

\* json.dumps(log_entry): the members in the order the dict was built (the
\* timestamp left out, durations in hundredths of a second).
json_dumps(entry) ==
    "{\"level\": " \o JsonString(entry.level)
        \o ", \"operation_id\": " \o JsonString(entry.operation_id)
        \o ", \"intent\": " \o JsonOptString(entry.intent)
        \o ", \"namespace\": " \o JsonOptString(entry.namespace)
        \o ", \"target\": " \o JsonOptString(entry.target)
        \o ", \"command\": " \o JsonString(entry.command)
        \o ", \"exit_code\": " \o ToString(entry.exit_code)
        \o ", \"duration\": " \o ToString(entry.duration)
        \o ", \"stdout_digest\": " \o JsonString(entry.stdout_digest)
        \o ", \"stderr_digest\": " \o JsonString(entry.stderr_digest)
        \o ", \"truncated\": " \o JsonBoolean(entry.truncated)
        \o ", \"timeout\": " \o JsonBoolean(entry.timeout) \o "}"

\* The line log_action writes for an entry.
LogLine(entry) == json_dumps(entry) \o "\n"

\* Chunks with the record and its newline written by two system calls.
ChunksRecordThenNewline(text) == <<SubSeq(text, 1, Len(text) - 1), "\n">>

\* The system calls that carry the text of one f.write to the file: the file
\* object buffers the text and close() writes the buffer with one call.
Chunks(text) == <<text>>

\* AppendLine with the file opened in mode "w": the line replaces the file.
TruncatingWrite(file, entry) == <<entry>>

\* open(self.log_file, "a") and one write of the line.
AppendLine(file, entry) == Append(file, entry)

\* AgentLogger.log_action: the log file after the call.
log_action(file, op_id, plan_json, cmd, res, level) ==
    AppendLine(file, LogEntry(op_id, plan_json, cmd, res, level))

\* AgentLogger.generate_operation_id: str(uuid.uuid4()), the n-th one issued.
generate_operation_id(n) == "op-" \o ToString(n)

(***************************************************************************)
(* agent/tool.py.  A payload is a JSON instance: a value with its type.    *)
(***************************************************************************)
JStr(s) == [type |-> "string", val |-> s]

JBool(b) == [type |-> "boolean", val |-> b]

JInt(n) == [type |-> "integer", val |-> n]

JObj(o) == [type |-> "object", val |-> o]

\* An object with no members: a function with the empty domain.
EmptyObject == JObj([k \in {} |-> JStr("")])

IntentEnum ==
    {"diagnose", "restart", "scale", "logs", "status", "describe", "events", "top",
     "cordon", "uncordon", "drain", "flux-reconcile", "flux-suspend", "flux-resume",
     "flux-status", "job-restart", "config-view"}

ResourceEnum ==
    {"deployment", "pod", "statefulset", "node", "service", "namespace",
     "kustomization", "job", "configmap"}

\* The types of the schema's properties; a property constrains only an object
\* that has such a member.
IsString(v) == v.type = "string"

IsBoolean(v) == v.type = "boolean"

IsIntent(v) == v.type = "string" /\ v.val \in IntentEnum

IsResource(v) == v.type = "string" /\ v.val \in ResourceEnum

IsConstraints(v) ==
    /\ v.type = "object"
    /\ ("confirm" \in DOMAIN v.val => IsBoolean(v.val["confirm"]))
    /\ ("dryRun" \in DOMAIN v.val => IsBoolean(v.val["dryRun"]))

\* SchemaValid without the enum of intent and resource and without the types
\* of the constraints.
SchemaValidRequiredOnly(instance) ==
    /\ instance.type = "object"
    /\ {"intent", "resource", "namespace", "name"} \subseteq DOMAIN instance.val
    /\ ("intent" \in DOMAIN instance.val => IsString(instance.val["intent"]))
    /\ ("resource" \in DOMAIN instance.val => IsString(instance.val["resource"]))
    /\ ("namespace" \in DOMAIN instance.val => IsString(instance.val["namespace"]))
    /\ ("name" \in DOMAIN instance.val => IsString(instance.val["name"]))

\* jsonschema.validate(instance=payload, schema=K8S_EXEC_SCHEMA) raises nothing.
SchemaValid(instance) ==
    /\ instance.type = "object"
    /\ {"intent", "resource", "namespace", "name"} \subseteq DOMAIN instance.val
    /\ ("intent" \in DOMAIN instance.val => IsIntent(instance.val["intent"]))
    /\ ("resource" \in DOMAIN instance.val => IsResource(instance.val["resource"]))
    /\ ("namespace" \in DOMAIN instance.val => IsString(instance.val["namespace"]))
    /\ ("name" \in DOMAIN instance.val => IsString(instance.val["name"]))
    /\ ("selector" \in DOMAIN instance.val => IsString(instance.val["selector"]))
    /\ ("constraints" \in DOMAIN instance.val => IsConstraints(instance.val["constraints"]))

\* payload.get("selector")
Selector(p) == IF "selector" \in DOMAIN p.val THEN Some(p.val.selector.val) ELSE None

\* payload.get("constraints", {})
Constraints(p) == IF "constraints" \in DOMAIN p.val THEN p.val.constraints.val ELSE EmptyObject.val

\* constraints.get(key, False)
Constraint(p, key) ==
    IF key \in DOMAIN Constraints(p) THEN Constraints(p)[key].val ELSE FALSE

\* query of execute
Query(p) ==
    p.val.intent.val \o " " \o p.val.resource.val \o " " \o p.val.name.val
        \o (IF Truthy(Selector(p)) THEN " with selector " \o Selector(p)[1] ELSE "")

\* Gate with the verdict ignored: a rejected command goes on to the gates.
GateIgnoringVerdict(valid, confirm, dryRun) ==
    IF confirm THEN "awaiting_confirmation"
    ELSE IF dryRun THEN "dry_run"
    ELSE "validated"

\* Gate with the confirmation test ahead of the validity test.
GateConfirmFirst(valid, confirm, dryRun) ==
    IF confirm THEN "awaiting_confirmation"
    ELSE IF ~valid THEN "validation_failed"
    ELSE IF dryRun THEN "dry_run"
    ELSE "validated"

\* Gate with the dry-run test ahead of the confirmation test.
GateDryRunFirst(valid, confirm, dryRun) ==
    IF ~valid THEN "validation_failed"
    ELSE IF dryRun THEN "dry_run"
    ELSE IF confirm THEN "awaiting_confirmation"
    ELSE "validated"

\* Gate without the dry-run test.
GateNoDryRun(valid, confirm, dryRun) ==
    IF ~valid THEN "validation_failed"
    ELSE IF confirm THEN "awaiting_confirmation"
    ELSE "validated"

\* The branch execute takes once the plan's command is validated.
Gate(valid, confirm, dryRun) ==
    IF ~valid THEN "validation_failed"
    ELSE IF confirm THEN "awaiting_confirmation"
    ELSE IF dryRun THEN "dry_run"
    ELSE "validated"

\* The string execute hands to the validator.
ValidatedCommand(plan_json) == plan_json["command"]

\* The string execute hands to safe_exec, and logs.
ExecutedCommand(plan_json, verdict) == plan_json["command"]

\* The result execute logs for a rejected command.
RejectedResult(verdict) ==
    [code |-> -1, stdout |-> "",
     stderr |-> "Validation failed: " \o Join(", ", verdict.reasons),
     duration |-> 0]

\* The result execute fabricates on a dry run.
DryRunResult(plan_json) ==
    [code |-> 0,
     stdout |-> "[DRY RUN] Command would execute: " \o plan_json["command"],
     stderr |-> "", duration |-> 0, dryRun |-> TRUE]

\* AuditLevel with the test code >= 0 in place of code == 0.
AuditLevelNonNegative(stage, res) ==
    IF stage = "validation_failed" THEN "ERROR"
    ELSE IF res.code >= 0 THEN "INFO" ELSE "ERROR"

\* The level execute logs a result with.
AuditLevel(stage, res) ==
    IF stage = "validation_failed" THEN "ERROR"
    ELSE IF res.code = 0 THEN "INFO" ELSE "ERROR"

\* The responses of execute (details carries the text of the ValidationError).
SchemaErrorResponse == [error |-> "Invalid input schema", details |-> "ValidationError"]

RejectedResponse(op_id, plan_json, verdict) ==
    [operationId |-> op_id, plan |-> plan_json,
     validation |-> [valid |-> FALSE, reasons |-> verdict.reasons],
     result |-> None]

AwaitingResponse(op_id, plan_json) ==
    [operationId |-> op_id, plan |-> plan_json,
     validation |-> [valid |-> TRUE, reasons |-> <<>>],
     status |-> "awaiting_confirmation",
     message |-> "Command requires explicit confirmation before execution"]

ResultResponse(op_id, plan_json, res) ==
    [operationId |-> op_id, plan |-> plan_json,
     validation |-> [valid |-> TRUE, reasons |-> <<>>],
     result |-> Some([code         |-> res.code,
                      stdoutDigest |-> digest(res.stdout, DigestMaxLen),
                      stderrDigest |-> digest(res.stderr, DigestMaxLen),
                      duration     |-> res.duration,
                      truncated    |-> Flag(res, "truncated")])]

(***************************************************************************)
(* The inputs: the policies the validator may have loaded, the payloads a  *)
(* caller sends, what retrieval returns, the texts the generation function *)
(* returns and what the subprocess does.                                   *)
(***************************************************************************)
\* The policy the system prompt describes.
StrictPolicy ==
    [allowed_verbs |-> <<"get", "describe", "logs", "scale", "rollout", "cordon",
                         "drain", "uncordon">>,
     allowed_resources |-> <<"deployment", "pod", "statefulset", "node", "service">>,
     namespace_scoped |-> TRUE,
     forbidden_combinations |->
        <<[verb |-> "delete", resource |-> "namespace",
           reason |-> "Namespace deletion is not allowed"],
          [verb |-> "delete", resource |-> "pod",
           reason |-> "Use rollout restart instead of deleting pods"]>>]

\* A policy that allows mutating verbs, does not require a namespace and has no
\* table of forbidden combinations.
LaxPolicy ==
    [allowed_verbs |-> <<"get", "delete", "apply", "rollout", "reconcile">>,
     allowed_resources |-> <<"deployment", "pod", "kustomization", "namespace">>,
     namespace_scoped |-> FALSE]

Policies == {StrictPolicy, LaxPolicy}

Commands ==
    {"kubectl rollout restart deployment/api -n prod",
     "kubectl get pods",
     "kubectl delete pod my-pod -n prod",
     "gh repo delete homelab --yes",
     "rm -rf /tmp"}

\* A response that is the JSON object of a plan and nothing else.
PlanText(cmd) ==
    <<LB, Member("intent", "restart"), Member("namespace", "prod"),
      Member("target", "deployment/api"), Member("command", cmd),
      Member("summary", "Run the command"), RB>>

\* The same object with text around it and an object as the value of a key.
WrappedPlanText(cmd) ==
    <<Prose("Here is the plan:"), LB, Member("intent", "restart"),
      Member("namespace", "prod"), Key("labels"), LB, Member("app", "api"), RB,
      Member("command", cmd), Member("summary", "Run the command"), RB,
      Prose("Done.")>>

\* Responses the check of _parse_json_response turns down: no object at all,
\* an object that is not JSON, and an object nested three deep, of which the
\* expression matches an inner object that lacks the required keys.
BadTexts ==
    {<<Prose("I cannot help with that.")>>,
     <<LB, Member("intent", "restart"), Prose("namespace = prod"),
       Member("command", "kubectl get pods -n prod"),
       Member("summary", "Run the command"), RB>>,
     <<LB, Member("intent", "restart"), Member("namespace", "prod"),
       Key("selector"), LB, Key("matchLabels"), LB, Member("app", "api"), RB, RB,
       Member("command", "kubectl get pods -n prod"),
       Member("summary", "Run the command"), RB>>}

Texts ==
    {PlanText(c) : c \in Commands \ {"kubectl get pods"}}
        \cup {WrappedPlanText("kubectl get pods")} \cup BadTexts

BasePayload ==
    [intent |-> JStr("restart"), resource |-> JStr("deployment"),
     namespace |-> JStr("prod"), name |-> JStr("api")]

\* f with key k set to v, k in its domain or not.
With(f, k, v) == [x \in DOMAIN f \cup {k} |-> IF x = k THEN v ELSE f[x]]

ValidPayloads ==
    {JObj(BasePayload),
     JObj(With(BasePayload, "constraints",
               JObj([confirm |-> JBool(FALSE), dryRun |-> JBool(FALSE)]))),
     JObj(With(BasePayload, "constraints", JObj([confirm |-> JBool(TRUE)]))),
     JObj(With(With(BasePayload, "selector", JStr("app=api")),
               "constraints", JObj([dryRun |-> JBool(TRUE)]))),
     JObj(With(BasePayload, "constraints",
               JObj([confirm |-> JBool(TRUE), dryRun |-> JBool(TRUE)])))}

\* A missing required field, values outside the enums, wrong types, no object.
InvalidPayloads ==
    {JObj([intent |-> JStr("restart"), resource |-> JStr("deployment"),
           namespace |-> JStr("prod")]),
     JObj(With(BasePayload, "intent", JStr("destroy"))),
     JObj(With(BasePayload, "resource", JStr("secret"))),
     JObj(With(BasePayload, "namespace", JInt(5))),
     JObj(With(BasePayload, "constraints", JObj([confirm |-> JStr("yes")]))),
     JObj(With(BasePayload, "constraints", JBool(TRUE))),
     JStr("restart deployment api")}

Payloads == ValidPayloads \cup InvalidPayloads

Contexts == {"", "Card: restart-deployment"}

\* What retrieve_k8s_help raises when the card index cannot be read.
RetrievalErrors == {"[Errno 2] No such file or directory: 'index/meta.json'"}

\* What generate() raises when the inference backend fails.
GenerationErrors == {"[metal] Command buffer execution failed"}

Outcomes ==
    {[kind |-> "completed", returncode |-> 0,
      stdout |-> "deployment.apps/api restarted", stderr |-> "", elapsed |-> 123],
     [kind |-> "completed", returncode |-> 1, stdout |-> "",
      stderr |-> "Error from server (NotFound)", elapsed |-> 45],
     [kind |-> "timeout", elapsed |-> 1500],
     [kind |-> "error", message |-> "[Errno 12] Cannot allocate memory", elapsed |-> 0]}

\* s repeated n times.
RECURSIVE Repeat(_, _)
Repeat(s, n) ==
    IF n = 0 THEN ""
    ELSE IF n % 2 = 1 THEN s \o Repeat(s, n - 1)
    ELSE Repeat(s, n \div 2) \o Repeat(s, n \div 2)

\* What subprocess.run does in a call of safe_exec on its own: the process
\* completes with output below, at and above each cap, the timeout expires,
\* or the process cannot be run.
ExecOutcomes ==
    {[kind |-> "completed", returncode |-> rc, stdout |-> Repeat("o", n),
      stderr |-> Repeat("e", m), elapsed |-> 120] :
        rc \in {0, 1, -9},
        n \in {0, StdoutCap - 1, StdoutCap, StdoutCap + 1, StdoutCap + StderrCap},
        m \in {0, StderrCap, StderrCap + 1}}
    \cup {[kind |-> "timeout", elapsed |-> 100 * t] : t \in {1, DefaultTimeout}}
    \cup {[kind |-> "error", message |-> msg, elapsed |-> 0] :
              msg \in {"[Errno 12] Cannot allocate memory",
                       "'utf-8' codec can't decode byte 0xff in position 0"}}

ExecCommands == {"kubectl get pods -n prod", "sleep 30"}

ExecTimeouts == {1, DefaultTimeout}

\* Texts handed to _digest on its own: every prefix of the alphabet up to
\* MaxTextLen, and texts at, just above and well above the default max_len.
Alphabet == "abcdefghijklmnopqrstuvwxyz"

DigestTexts ==
    {SubSeq(Alphabet, 1, n) : n \in 0..MaxTextLen}
        \cup {Repeat("a", DigestMaxLen \div 2) \o mid \o Repeat("z", DigestMaxLen \div 2) :
                  mid \in {"", "m", "middle"}}

DigestCaps == 0..MaxCap \cup {DigestMaxLen}

\* The plan and the results concurrent log_action calls are given: a dry run,
\* and a completed process whose output has several lines and a quoted word.
LoggerPlan ==
    [intent |-> "restart", namespace |-> "prod",
     command |-> "kubectl get pods -n prod", summary |-> "Run the command"]

LoggerResults ==
    {DryRunResult(LoggerPlan),
     [code |-> 1, stdout |-> "NAME\tREADY\napi-1\t0/1\n",
      stderr |-> "error: \"api\" not ready", duration |-> 45, truncated |-> FALSE]}

\* A policy that allows delete on pods and leaves namespace_scoped to its
\* default: the guardrail is then the only check a delete pod command fails.
DeletePolicy ==
    [allowed_verbs |-> <<"get", "delete", "scale", "rollout">>,
     allowed_resources |-> <<"deployment", "pod", "node">>]

\* A policy whose verbs are those the system prompt lists: of the rollout
\* sub-verbs it allows restart only, written as the two words.
RolloutRestartPolicy ==
    [allowed_verbs |-> <<"get", "describe", "logs", "scale", "rollout restart", "cordon",
                         "drain", "uncordon">>,
     allowed_resources |-> <<"deployment", "pod", "statefulset", "node", "service">>,
     namespace_scoped |-> TRUE]

\* A policy that allows reading deployments only and whose table of forbidden
\* combinations names delete pod twice, with another pair in between.
ReadOnlyPolicy ==
    [allowed_verbs |-> <<"get", "describe">>,
     allowed_resources |-> <<"deployment">>,
     namespace_scoped |-> TRUE,
     forbidden_combinations |->
        <<[verb |-> "delete", resource |-> "pod",
           reason |-> "Pods are managed by their controllers"],
          [verb |-> "delete", resource |-> "namespace",
           reason |-> "Namespace deletion is not allowed"],
          [verb |-> "delete", resource |-> "pod",
           reason |-> "Use rollout restart instead of deleting pods"]>>]

ValidatorPolicies == Policies \cup {DeletePolicy, RolloutRestartPolicy, ReadOnlyPolicy}

\* Commands handed to validate on its own: no permitted prefix, each of the
\* prefixes, a namespace flag in each of its forms or none, flags before and
\* after the resource, cluster-scoped resources, and delete pod in its forms.
ValidatorCommands ==
    {"",
     "rm -rf /tmp",
     "# Failed to generate valid command",
     "helm delete pod my-pod",
     "sudo kubectl apply -f x.yaml",
     "gh repo delete homelab --yes",
     "kubectl",
     "  kubectl get pods -n prod ",
     "kubectl get pods",
     "kubectl get pods --namespace prod",
     "kubectl get pods --namespace=prod",
     "kubectl get nodes",
     "kubectl describe node worker-1",
     "kubectl get secrets -n prod",
     "kubectl apply -f x.yaml -n prod",
     "kubectl scale deployment api --replicas=3 -n prod",
     "kubectl get pod web-n -o yaml",
     "kubectl rollout restart deployment/api -n prod",
     "kubectl rollout status deployment api",
     "kubectl rollout restart deployment/x -n ns",
     "kubectl rollout undo deployment/x -n ns",
     "kubectl delete namespace prod",
     "kubectl delete deployment api -n prod",
     "kubectl delete pod my-pod -n prod",
     "kubectl delete pod my-pod",
     "kubectl delete pods my-pod -n prod",
     "kubectl delete pod/my-pod -n prod",
     "kubectl delete -n prod pod my-pod",
     "kubectl delete --namespace=prod pod my-pod",
     "flux reconcile kustomization apps -n flux-system",
     "flux get kustomizations"}

\* dict without one of its keys.
Without(dict, key) == [k \in DOMAIN dict \ {key} |-> dict[k]]

\* A policy file on disk: absent, text that is not YAML, or YAML with the
\* document yaml.safe_load returns for it (None for an empty file).
MissingFile == [kind |-> "missing"]

NotYaml == [kind |-> "not_yaml"]

YamlFile(doc) == [kind |-> "yaml", doc |-> doc]

\* org/rbac-allowlist.yaml: complete, absent, malformed, empty, or without
\* one of the entries validate reads with a subscript.
RbacFiles ==
    {YamlFile(Some(StrictPolicy)), YamlFile(Some(DeletePolicy)), MissingFile, NotYaml,
     YamlFile(None),
     YamlFile(Some(Without(StrictPolicy, "allowed_verbs"))),
     YamlFile(Some(Without(StrictPolicy, "allowed_resources")))}

\* org/namespaces.yaml, which validate never reads.
NamespacesFiles ==
    {YamlFile(Some([namespaces |-> <<"prod", "default">>])), MissingFile, NotYaml}

\* Commands handed to the validator constructed from these files: with a verb
\* and a resource, with a verb only, with neither, and two that return
\* before the policy is read.
ConfigCommands ==
    {"kubectl get pods -n prod", "kubectl get -n prod", "kubectl", "rm -rf /tmp",
     "gh repo delete homelab --yes"}

\* The namespace execute passes as validate's second argument.
ValidatorNamespaces == {"prod", "default"}

(***************************************************************************)
(* The state: the validator's policy, the log file, and one invocation of  *)
(* K8sExecTool.execute at a time with its locals and its position.         *)
(***************************************************************************)
VARIABLES
    rbac,          \* CommandValidator.rbac, loaded at construction
    log,           \* logs/agent.log: the records written, in file order
    issued,        \* how many operation ids generate_operation_id has issued
    ops,           \* how many invocations of execute have begun
    pc,            \* where the invocation is
    payload,       \* its argument
    operation_id,  \* its locals, None until assigned
    context,
    genCalls,      \* the generate() calls of its plan_command, with their responses
    plan,
    validated,     \* the strings it handed to validate
    validation,
    branch,        \* the branch it took after validation
    spawned,       \* the strings it handed to safe_exec
    result,
    response,      \* what it returned
    log0,          \* the log file as it was when the invocation began
    raised,        \* the exception that ended it, None when none has
    validate_call, \* a call of CommandValidator.validate on its own: the arguments
    validate_ret,  \* and what it returned, None until it has
    exec_call,     \* a call of safe_exec on its own, with what the subprocess does
    exec_ret,
    digest_call,   \* a call of AgentLogger._digest on its own
    digest_ret,
    policy_file,   \* org/rbac-allowlist.yaml and org/namespaces.yaml as they are on disk
    validator,     \* a CommandValidator constructed on its own: None, or its rbac
    config_error,  \* the exception its construction or its validate raised
    log_file,      \* logs/agent.log as text, under concurrent log_action calls
    writers,       \* the threads in log_action: position, record, file buffer
    planner,       \* server._planner: None, or the model load its planner came from
    tool,          \* server._tool: None, or the index of its object in tools
    tools,         \* the K8sExecTool objects constructed, each with its planner field
    loads,         \* the calls of mlx_lm.load made: by which function, in which thread
    handlers       \* the request threads of the server: position, locals, status

pipelineVars ==
    <<rbac, log, issued, ops, pc, payload, operation_id, context, genCalls, plan,
      validated, validation, branch, spawned, result, response, log0, raised>>

unitVars ==
    <<validate_call, validate_ret, exec_call, exec_ret, digest_call, digest_ret,
      policy_file, validator, config_error>>

loggerVars == <<log_file, writers>>

serverVars == <<planner, tool, tools, loads, handlers>>

vars == <<pipelineVars, unitVars, loggerVars, serverVars>>

\* No invocation of execute is under way and none has been made.
PipelineIdle ==
    /\ log = <<>>
    /\ issued = 0
    /\ ops = 0
    /\ pc = "idle"
    /\ payload = None
    /\ operation_id = None
    /\ context = None
    /\ genCalls = <<>>
    /\ plan = None
    /\ validated = <<>>
    /\ validation = None
    /\ branch = None
    /\ spawned = <<>>
    /\ result = None
    /\ response = None
    /\ log0 = <<>>
    /\ raised = None

\* No validator is constructed on its own.
ConfigIdle ==
    /\ policy_file = None
    /\ validator = None
    /\ config_error = None

\* No function is called on its own.
UnitIdle ==
    /\ validate_call = None
    /\ validate_ret = None
    /\ exec_call = None
    /\ exec_ret = None
    /\ digest_call = None
    /\ digest_ret = None
    /\ ConfigIdle

\* No thread is in log_action.
LoggerIdle ==
    /\ log_file = ""
    /\ writers = <<>>

\* No server process is running.
ServerIdle ==
    /\ planner = None
    /\ tool = None
    /\ tools = <<>>
    /\ loads = <<>>
    /\ handlers = <<>>

Init ==
    /\ rbac \in Policies
    /\ PipelineIdle
    /\ UnitIdle
    /\ LoggerIdle
    /\ ServerIdle

\* execute, lines 68-91: the schema check, the parameters, the operation id.
Receive(p) ==
    /\ pc = "idle"
    /\ ops < MaxOps
    /\ ops' = ops + 1
    /\ payload' = Some(p)
    /\ log0' = log
    /\ IF SchemaValid(p)
       THEN /\ operation_id' = Some(generate_operation_id(issued + 1))
            /\ issued' = issued + 1
            /\ pc' = "received"
            /\ UNCHANGED response
       ELSE /\ response' = Some(SchemaErrorResponse)
            /\ pc' = "responded"
            /\ UNCHANGED <<operation_id, issued>>
    /\ UNCHANGED <<unitVars, loggerVars, serverVars>>
    /\ UNCHANGED <<raised, rbac, log, context, genCalls, plan, validated, validation, branch,
                   spawned, result>>

\* execute, line 94: retrieve_k8s_help returns the context.
Retrieve(ctx) ==
    /\ pc = "received"
    /\ context' = Some(ctx)
    /\ pc' = "retrieved"
    /\ UNCHANGED <<unitVars, loggerVars, serverVars>>
    /\ UNCHANGED <<raised, rbac, log, issued, ops, payload, operation_id, genCalls, plan,
                   validated, validation, branch, spawned, result, response, log0>>

\* execute, line 94: retrieve_k8s_help raises; execute has no handler, so the
\* exception ends the invocation and goes to the caller of execute.
RetrieveRaises(exc) ==
    /\ pc = "received"
    /\ raised' = Some(exc)
    /\ pc' = "raised"
    /\ UNCHANGED <<unitVars, loggerVars, serverVars>>
    /\ UNCHANGED <<rbac, log, issued, ops, payload, operation_id, context, genCalls,
                   plan, validated, validation, branch, spawned, result, response, log0>>

\* The prompt plan_command builds for the invocation's request.
RequestPrompt(correction) ==
    LET p == payload[1]
    IN  Prompt(UserGoal(p.val.intent.val, p.val.resource.val, p.val.namespace.val,
                        p.val.name.val, Selector(p)),
               context[1], correction)

\* Where _parse_json_response goes after the first response.
AfterFirst(got) == IF got # None THEN "planned" ELSE "retrying"

\* AfterRetry with the retry's response never looked at.
AfterRetryAlwaysFallback(got) == Some(FallbackPlan)

\* What _parse_json_response returns after the retry.
AfterRetry(got) == IF got # None THEN got ELSE Some(FallbackPlan)

\* plan_command, lines 83-134: the first generate() and the check of its response.
Generate(text) ==
    /\ pc = "retrieved"
    /\ genCalls' = <<[call |-> FirstCall(RequestPrompt(FALSE)), response |-> text]>>
    /\ pc' = AfterFirst(ExtractPlan(text))
    /\ plan' = IF pc' = "planned" THEN ExtractPlan(text) ELSE None
    /\ UNCHANGED <<unitVars, loggerVars, serverVars>>
    /\ UNCHANGED <<raised, rbac, log, issued, ops, payload, operation_id, context, validated,
                   validation, branch, spawned, result, response, log0>>

\* plan_command, lines 105-113, and _parse_json_response, lines 141-148:
\* generate() raises, in the first call or in the retry; neither function
\* nor execute has a handler, so the exception goes to the caller of execute.
\* The call is recorded with an empty response.
GenerateRaises(exc) ==
    /\ pc \in {"retrieved", "retrying"}
    /\ genCalls' = Append(genCalls,
                          [call |-> IF pc = "retrieved"
                                    THEN FirstCall(RequestPrompt(FALSE))
                                    ELSE RetryCall(RequestPrompt(TRUE)),
                           response |-> <<>>])
    /\ raised' = Some(exc)
    /\ pc' = "raised"
    /\ UNCHANGED <<unitVars, loggerVars, serverVars>>
    /\ UNCHANGED <<rbac, log, issued, ops, payload, operation_id, context, plan,
                   validated, validation, branch, spawned, result, response, log0>>

\* _parse_json_response, lines 136-169: the retry, then the plan or the fallback.
Retry(text) ==
    /\ pc = "retrying"
    /\ genCalls' = Append(genCalls, [call |-> RetryCall(RequestPrompt(TRUE)),
                                     response |-> text])
    /\ plan' = AfterRetry(ExtractPlan(text))
    /\ pc' = "planned"
    /\ UNCHANGED <<unitVars, loggerVars, serverVars>>
    /\ UNCHANGED <<raised, rbac, log, issued, ops, payload, operation_id, context, validated,
                   validation, branch, spawned, result, response, log0>>

\* execute, lines 105-151: validation and the branch taken on its verdict.
Validate ==
    /\ pc = "planned"
    /\ LET verdict == validate(ValidatedCommand(plan[1]), payload[1].val.namespace.val, rbac)
           next    == Gate(verdict.valid, Constraint(payload[1], "confirm"),
                           Constraint(payload[1], "dryRun"))
       IN  /\ validated' = Append(validated, ValidatedCommand(plan[1]))
           /\ validation' = Some(verdict)
           /\ branch' = Some(next)
           /\ pc' = next
           /\ result' = IF next = "validation_failed" THEN Some(RejectedResult(verdict))
                        ELSE IF next = "dry_run" THEN Some(DryRunResult(plan[1]))
                        ELSE None
    /\ UNCHANGED <<unitVars, loggerVars, serverVars>>
    /\ UNCHANGED <<raised, rbac, log, issued, ops, payload, operation_id, context, genCalls,
                   plan, spawned, response, log0>>

\* execute, line 153: safe_exec runs the command.
Exec(outcome) ==
    /\ pc = "validated"
    /\ spawned' = Append(spawned, ExecutedCommand(plan[1], validation[1]))
    /\ result' = Some(safe_exec(ExecutedCommand(plan[1], validation[1]), DefaultTimeout,
                                outcome))
    /\ branch' = Some("executed")
    /\ pc' = "executed"
    /\ UNCHANGED <<unitVars, loggerVars, serverVars>>
    /\ UNCHANGED <<raised, rbac, log, issued, ops, payload, operation_id, context, genCalls,
                   plan, validated, validation, response, log0>>

\* execute, lines 116 and 156-157: the audit record.
Log ==
    /\ pc \in {"validation_failed", "dry_run", "executed"}
    /\ log' = log_action(log, operation_id[1], plan[1], plan[1]["command"], result[1],
                         AuditLevel(pc, result[1]))
    /\ pc' = "logged"
    /\ UNCHANGED <<unitVars, loggerVars, serverVars>>
    /\ UNCHANGED <<raised, rbac, issued, ops, payload, operation_id, context, genCalls, plan,
                   validated, validation, branch, spawned, result, response, log0>>

\* execute, lines 118-126, 131-140 and 160-174: the response.
Respond ==
    /\ pc \in {"logged", "awaiting_confirmation"}
    /\ response' =
          IF branch[1] = "validation_failed"
          THEN Some(RejectedResponse(operation_id[1], plan[1], validation[1]))
          ELSE IF branch[1] = "awaiting_confirmation"
          THEN Some(AwaitingResponse(operation_id[1], plan[1]))
          ELSE Some(ResultResponse(operation_id[1], plan[1], result[1]))
    /\ pc' = "responded"
    /\ UNCHANGED <<unitVars, loggerVars, serverVars>>
    /\ UNCHANGED <<raised, rbac, log, issued, ops, payload, operation_id, context, genCalls,
                   plan, validated, validation, branch, spawned, result, log0>>

\* The caller has the response; the tool is ready for the next invocation.
Return ==
    /\ pc \in {"responded", "raised"}
    /\ pc' = "idle"
    /\ payload' = None
    /\ operation_id' = None
    /\ context' = None
    /\ genCalls' = <<>>
    /\ plan' = None
    /\ validated' = <<>>
    /\ validation' = None
    /\ branch' = None
    /\ spawned' = <<>>
    /\ result' = None
    /\ response' = None
    /\ UNCHANGED <<unitVars, loggerVars, serverVars>>
    /\ raised' = None
    /\ UNCHANGED <<rbac, log, issued, ops, log0>>

Next ==
    \/ \E p \in Payloads : Receive(p)
    \/ \E ctx \in Contexts : Retrieve(ctx)
    \/ \E exc \in RetrievalErrors : RetrieveRaises(exc)
    \/ \E text \in Texts : Generate(text)
    \/ \E exc \in GenerationErrors : GenerateRaises(exc)
    \/ \E text \in Texts : Retry(text)
    \/ Validate
    \/ \E outcome \in Outcomes : Exec(outcome)
    \/ Log
    \/ Respond
    \/ Return

Spec == Init /\ [][Next]_vars

\* A step of an invocation under way.  execute is synchronous: once called it
\* runs on until it returns or an exception leaves it, each collaborator
\* either returning or raising; only the arrival of a request is up to the
\* caller.
Progress ==
    \/ \E ctx \in Contexts : Retrieve(ctx)
    \/ \E exc \in RetrievalErrors : RetrieveRaises(exc)
    \/ \E text \in Texts : Generate(text)
    \/ \E exc \in GenerationErrors : GenerateRaises(exc)
    \/ \E text \in Texts : Retry(text)
    \/ Validate
    \/ \E outcome \in Outcomes : Exec(outcome)
    \/ Log
    \/ Respond
    \/ Return

LiveSpec == Init /\ [][Next]_vars /\ WF_vars(Progress)

(***************************************************************************)
(* CommandValidator.validate called on its own, once, on any command under *)
(* any policy.                                                             *)
(***************************************************************************)
ValidatorInit ==
    /\ rbac \in ValidatorPolicies
    /\ validate_call \in {Some([command |-> c, namespace |-> n]) :
                              c \in ValidatorCommands, n \in ValidatorNamespaces}
    /\ validate_ret = None
    /\ exec_call = None
    /\ exec_ret = None
    /\ digest_call = None
    /\ digest_ret = None
    /\ ConfigIdle
    /\ PipelineIdle
    /\ LoggerIdle
    /\ ServerIdle

\* validator.validate(command, namespace) returns.
CallValidate ==
    /\ validate_call # None
    /\ validate_ret = None
    /\ validate_ret' = Some(validate(validate_call[1].command, validate_call[1].namespace,
                                     rbac))
    /\ UNCHANGED <<validate_call, exec_call, exec_ret, digest_call, digest_ret>>
    /\ UNCHANGED <<policy_file, validator, config_error>>
    /\ UNCHANGED <<pipelineVars, loggerVars, serverVars>>

ValidatorNext == CallValidate

ValidatorSpec == ValidatorInit /\ [][ValidatorNext]_vars

(***************************************************************************)
(* CommandValidator constructed on its own from the policy files on disk,  *)
(* and validate called on it once.                                         *)
(***************************************************************************)
ConfigInit ==
    /\ rbac = StrictPolicy
    /\ policy_file \in {Some([rbac |-> f, namespaces |-> g]) :
                            f \in RbacFiles, g \in NamespacesFiles}
    /\ validator = None
    /\ config_error = None
    /\ validate_call \in {Some([command |-> c, namespace |-> "prod"]) : c \in ConfigCommands}
    /\ validate_ret = None
    /\ exec_call = None
    /\ exec_ret = None
    /\ digest_call = None
    /\ digest_ret = None
    /\ PipelineIdle
    /\ LoggerIdle
    /\ ServerIdle

\* What open() and yaml.safe_load raise for a file, None when they return.
LoadError(file) ==
    IF file.kind = "missing" THEN Some("FileNotFoundError")
    ELSE IF file.kind = "not_yaml" THEN Some("YAMLError")
    ELSE None

\* CommandValidator.__init__: the first file that cannot be loaded raises;
\* otherwise self.rbac is whatever document the allow-list file holds.
Construct ==
    /\ validator = None
    /\ config_error = None
    /\ LET files == policy_file[1]
           error == IF LoadError(files.rbac) # None THEN LoadError(files.rbac)
                    ELSE LoadError(files.namespaces)
       IN  IF error # None
           THEN /\ config_error' = Some([at |-> "construct", exception |-> error[1]])
                /\ UNCHANGED validator
           ELSE /\ validator' = Some([rbac |-> files.rbac.doc])
                /\ UNCHANGED config_error
    /\ UNCHANGED <<policy_file, validate_call, validate_ret, exec_call, exec_ret,
                   digest_call, digest_ret>>
    /\ UNCHANGED <<pipelineVars, loggerVars, serverVars>>

\* The exception validate raises when it reads the policy doc, None when it
\* raises none: self.rbac[...] on a missing entry, any access when self.rbac
\* is None.  The two early returns come before every access.
PolicyError(command, doc) ==
    LET vr == extract_verb_resource(command)
    IN  IF GhShortcut(command) \/ ~HasCliPrefix(command) THEN None
        ELSE IF doc = None
             THEN IF Truthy(vr[1]) \/ Truthy(vr[2]) THEN Some("TypeError")
                  ELSE Some("AttributeError")
        ELSE IF Truthy(vr[1]) /\ "allowed_verbs" \notin DOMAIN doc[1]
             THEN Some("KeyError: 'allowed_verbs'")
        ELSE IF Truthy(vr[2]) /\ "allowed_resources" \notin DOMAIN doc[1]
             THEN Some("KeyError: 'allowed_resources'")
        ELSE None

\* validator.validate(command, namespace) returns or raises.  With self.rbac
\* None it returns only from the early returns, which read no policy.
ConfigValidate ==
    /\ validator # None
    /\ config_error = None
    /\ validate_ret = None
    /\ LET command == validate_call[1].command
           error   == PolicyError(command, validator[1].rbac)
       IN  IF error # None
           THEN /\ config_error' = Some([at |-> "validate", exception |-> error[1]])
                /\ UNCHANGED validate_ret
           ELSE /\ validate_ret' =
                      Some(validate(command, validate_call[1].namespace,
                                    IF validator[1].rbac = None THEN StrictPolicy
                                    ELSE validator[1].rbac[1]))
                /\ UNCHANGED config_error
    /\ UNCHANGED <<policy_file, validator, validate_call, exec_call, exec_ret,
                   digest_call, digest_ret>>
    /\ UNCHANGED <<pipelineVars, loggerVars, serverVars>>

ConfigNext ==
    \/ Construct
    \/ ConfigValidate

ConfigSpec == ConfigInit /\ [][ConfigNext]_vars

(***************************************************************************)
(* safe_exec called on its own, once.                                      *)
(***************************************************************************)
ExecInit ==
    /\ rbac = StrictPolicy
    /\ exec_call \in {Some([cmd |-> c, timeout |-> t, outcome |-> o]) :
                          c \in ExecCommands, t \in ExecTimeouts, o \in ExecOutcomes}
    /\ exec_ret = None
    /\ validate_call = None
    /\ validate_ret = None
    /\ digest_call = None
    /\ digest_ret = None
    /\ ConfigIdle
    /\ PipelineIdle
    /\ LoggerIdle
    /\ ServerIdle

\* safe_exec(cmd, timeout) returns.
CallSafeExec ==
    /\ exec_call # None
    /\ exec_ret = None
    /\ exec_ret' = Some(safe_exec(exec_call[1].cmd, exec_call[1].timeout,
                                   exec_call[1].outcome))
    /\ UNCHANGED <<exec_call, validate_call, validate_ret, digest_call, digest_ret>>
    /\ UNCHANGED <<policy_file, validator, config_error>>
    /\ UNCHANGED <<pipelineVars, loggerVars, serverVars>>

ExecNext == CallSafeExec

ExecSpec == ExecInit /\ [][ExecNext]_vars

(***************************************************************************)
(* AgentLogger._digest called on its own, once.                            *)
(***************************************************************************)
DigestInit ==
    /\ rbac = StrictPolicy
    /\ digest_call \in {Some([text |-> t, max_len |-> n]) :
                            t \in DigestTexts, n \in DigestCaps}
    /\ digest_ret = None
    /\ validate_call = None
    /\ validate_ret = None
    /\ exec_call = None
    /\ exec_ret = None
    /\ ConfigIdle
    /\ PipelineIdle
    /\ LoggerIdle
    /\ ServerIdle

\* self._digest(text, max_len) returns.
CallDigest ==
    /\ digest_call # None
    /\ digest_ret = None
    /\ digest_ret' = Some(digest(digest_call[1].text, digest_call[1].max_len))
    /\ UNCHANGED <<digest_call, validate_call, validate_ret, exec_call, exec_ret>>
    /\ UNCHANGED <<policy_file, validator, config_error>>
    /\ UNCHANGED <<pipelineVars, loggerVars, serverVars>>

DigestNext == CallDigest

DigestSpec == DigestInit /\ [][DigestNext]_vars

(***************************************************************************)
(* AgentLogger.log_action called by NumWriters threads at the same time,   *)
(* each for its own operation, on the same log file.  A thread builds its  *)
(* entry, opens the file for appending, writes the line to the file object *)
(* and closes it; the system appends what a write call carries at the end  *)
(* of the file as it is then.                                              *)
(***************************************************************************)
Writers == 1..NumWriters

LoggerInit ==
    /\ rbac = StrictPolicy
    /\ log_file = ""
    /\ writers = [t \in Writers |-> [pc |-> "idle", line |-> "", pending |-> <<>>]]
    /\ PipelineIdle
    /\ UnitIdle
    /\ ServerIdle

\* log_action, lines 39-53: the entry of the thread's operation.
BuildEntry(t, res) ==
    /\ writers[t].pc = "idle"
    /\ writers' = [writers EXCEPT ![t] =
                     [pc |-> "built", pending |-> <<>>,
                      line |-> LogLine(LogEntry(generate_operation_id(t), LoggerPlan,
                                                LoggerPlan.command, res,
                                                AuditLevel("executed", res)))]]
    /\ UNCHANGED <<log_file, pipelineVars, unitVars, serverVars>>

\* log_action, line 56: open(self.log_file, "a").
OpenLog(t) ==
    /\ writers[t].pc = "built"
    /\ writers' = [writers EXCEPT ![t].pc = "open"]
    /\ UNCHANGED <<log_file, pipelineVars, unitVars, serverVars>>

\* log_action, line 57: f.write(json.dumps(log_entry) + "\n").
WriteLine(t) ==
    /\ writers[t].pc = "open"
    /\ writers' = [writers EXCEPT ![t].pc = "written",
                                  ![t].pending = Chunks(writers[t].line)]
    /\ UNCHANGED <<log_file, pipelineVars, unitVars, serverVars>>

\* log_action, line 56, the end of the with block: close() writes what the
\* file object holds, each call appending at the end of the file.
CloseLog(t) ==
    /\ writers[t].pc = "written"
    /\ log_file' = log_file \o Head(writers[t].pending)
    /\ writers' = [writers EXCEPT
                     ![t].pending = Tail(writers[t].pending),
                     ![t].pc = IF Len(writers[t].pending) = 1 THEN "done" ELSE "written"]
    /\ UNCHANGED <<pipelineVars, unitVars, serverVars>>

LoggerNext ==
    \/ \E t \in Writers, res \in LoggerResults : BuildEntry(t, res)
    \/ \E t \in Writers : OpenLog(t)
    \/ \E t \in Writers : WriteLine(t)
    \/ \E t \in Writers : CloseLog(t)

LoggerSpec == LoggerInit /\ [][LoggerNext]_vars

(***************************************************************************)
(* agent/server.py: the Flask server handles each request in a thread of   *)
(* its own.  k8s_exec_endpoint calls load_model, which reads and writes    *)
(* the globals _planner and _tool without a lock, and then tool.execute,   *)
(* which makes a planner of its own when the tool has none.  The server is *)
(* started cold, or with --preload after load_model has run once.          *)
(***************************************************************************)
Handlers == 1..NumHandlers

\* A handler before its request: no locals, no response.
IdleHandler == [pc |-> "idle", model |-> None, planner |-> None, tool |-> None,
                generating |-> None, status |-> None]

ServerInit ==
    /\ rbac = StrictPolicy
    /\ handlers = [t \in Handlers |-> IdleHandler]
    /\ \/ /\ planner = None
          /\ tool = None
          /\ tools = <<>>
          /\ loads = <<>>
       \/ /\ planner = Some(1)
          /\ tool = Some(1)
          /\ tools = <<[planner |-> Some(1)]>>
          /\ loads = <<[by |-> "load_model", thread |-> 0]>>
    /\ PipelineIdle
    /\ UnitIdle
    /\ LoggerIdle

\* k8s_exec_endpoint, lines 62-67: a request with a payload arrives.
Arrive(t) ==
    /\ handlers[t].pc \in {"idle", "done"}
    /\ handlers' = [handlers EXCEPT ![t] = [IdleHandler EXCEPT !.pc = "check"]]
    /\ UNCHANGED <<planner, tool, tools, loads>>
    /\ UNCHANGED <<pipelineVars, unitVars, loggerVars>>

\* load_model, line 28: if _planner is None.
CheckLoaded(t) ==
    /\ handlers[t].pc = "check"
    /\ handlers' = [handlers EXCEPT ![t].pc = IF planner = None THEN "load" ELSE "return"]
    /\ UNCHANGED <<planner, tool, tools, loads>>
    /\ UNCHANGED <<pipelineVars, unitVars, loggerVars>>

\* load_model, line 30: model, tokenizer = load(get_model_id()).
LoadModel(t) ==
    /\ handlers[t].pc = "load"
    /\ loads' = Append(loads, [by |-> "load_model", thread |-> t])
    /\ handlers' = [handlers EXCEPT ![t].pc = "make_planner",
                                    ![t].model = Some(Len(loads) + 1)]
    /\ UNCHANGED <<planner, tool, tools>>
    /\ UNCHANGED <<pipelineVars, unitVars, loggerVars>>

\* load_model, line 31: _planner = MLXPlanner(model=model, tokenizer=tokenizer).
MakePlanner(t) ==
    /\ handlers[t].pc = "make_planner"
    /\ planner' = handlers[t].model
    /\ handlers' = [handlers EXCEPT ![t].pc = "make_tool"]
    /\ UNCHANGED <<tool, tools, loads>>
    /\ UNCHANGED <<pipelineVars, unitVars, loggerVars>>

\* load_model, line 32: _tool = K8sExecTool(), whose planner is None.
MakeTool(t) ==
    /\ handlers[t].pc = "make_tool"
    /\ tools' = Append(tools, [planner |-> None])
    /\ tool' = Some(Len(tools) + 1)
    /\ handlers' = [handlers EXCEPT ![t].pc = "set_planner"]
    /\ UNCHANGED <<planner, loads>>
    /\ UNCHANGED <<pipelineVars, unitVars, loggerVars>>

\* load_model, line 33: _tool.planner = _planner, both globals read now.
SetToolPlanner(t) ==
    /\ handlers[t].pc = "set_planner"
    /\ tools' = [tools EXCEPT ![tool[1]].planner = planner]
    /\ handlers' = [handlers EXCEPT ![t].pc = "return"]
    /\ UNCHANGED <<planner, tool, loads>>
    /\ UNCHANGED <<pipelineVars, unitVars, loggerVars>>

\* load_model, line 35, and k8s_exec_endpoint, line 67: planner, tool = the globals.
ReturnPair(t) ==
    /\ handlers[t].pc = "return"
    /\ handlers' = [handlers EXCEPT ![t].pc = "execute", ![t].planner = planner,
                                    ![t].tool = tool]
    /\ UNCHANGED <<planner, tool, tools, loads>>
    /\ UNCHANGED <<pipelineVars, unitVars, loggerVars>>

\* k8s_exec_endpoint, line 70, and execute, line 97: tool.execute(payload) on
\* None raises, which the handler answers with 500; otherwise execute tests
\* self.planner is None.
ExecuteCheck(t) ==
    /\ handlers[t].pc = "execute"
    /\ handlers' =
          IF handlers[t].tool = None
          THEN [handlers EXCEPT ![t].pc = "done", ![t].status = Some(500)]
          ELSE IF tools[handlers[t].tool[1]].planner = None
          THEN [handlers EXCEPT ![t].pc = "lazy_load"]
          ELSE [handlers EXCEPT ![t].pc = "plan"]
    /\ UNCHANGED <<planner, tool, tools, loads>>
    /\ UNCHANGED <<pipelineVars, unitVars, loggerVars>>

\* execute, lines 98-99: self.planner = MLXPlanner(model_id=get_model_id()),
\* which loads the model itself.
LazyLoad(t) ==
    /\ handlers[t].pc = "lazy_load"
    /\ loads' = Append(loads, [by |-> "execute", thread |-> t])
    /\ tools' = [tools EXCEPT ![handlers[t].tool[1]].planner = Some(Len(loads) + 1)]
    /\ handlers' = [handlers EXCEPT ![t].pc = "plan"]
    /\ UNCHANGED <<planner, tool>>
    /\ UNCHANGED <<pipelineVars, unitVars, loggerVars>>

\* execute, line 94, and k8s_exec_endpoint, lines 74-78: retrieve_k8s_help
\* raises, execute lets the exception through, the handler answers with 500.
RetrieveFails(t) ==
    /\ handlers[t].pc = "execute"
    /\ handlers[t].tool # None
    /\ handlers' = [handlers EXCEPT ![t].pc = "done", ![t].status = Some(500)]
    /\ UNCHANGED <<planner, tool, tools, loads>>
    /\ UNCHANGED <<pipelineVars, unitVars, loggerVars>>

\* execute, line 101, and plan_command, lines 105-113: generate() is called on
\* the model of the tool's planner; nothing is acquired before the call.
StartGenerate(t) ==
    /\ handlers[t].pc = "plan"
    /\ handlers' = [handlers EXCEPT ![t].pc = "generate",
                                    ![t].generating = tools[handlers[t].tool[1]].planner]
    /\ UNCHANGED <<planner, tool, tools, loads>>
    /\ UNCHANGED <<pipelineVars, unitVars, loggerVars>>

\* plan_command, lines 105-113, and k8s_exec_endpoint, lines 74-78: generate()
\* raises, neither plan_command nor execute catches it, the handler answers
\* with 500.
GenerateFails(t) ==
    /\ handlers[t].pc = "generate"
    /\ handlers' = [handlers EXCEPT ![t].pc = "done", ![t].generating = None,
                                    ![t].status = Some(500)]
    /\ UNCHANGED <<planner, tool, tools, loads>>
    /\ UNCHANGED <<pipelineVars, unitVars, loggerVars>>

\* execute, lines 105-174, and k8s_exec_endpoint, line 72: generate() has
\* returned, the rest of the pipeline runs and the handler answers with its
\* result.
Answer(t) ==
    /\ handlers[t].pc = "generate"
    /\ handlers' = [handlers EXCEPT ![t].pc = "done", ![t].generating = None,
                                    ![t].status = Some(200)]
    /\ UNCHANGED <<planner, tool, tools, loads>>
    /\ UNCHANGED <<pipelineVars, unitVars, loggerVars>>

ServerNext ==
    \/ \E t \in Handlers : Arrive(t)
    \/ \E t \in Handlers : CheckLoaded(t)
    \/ \E t \in Handlers : LoadModel(t)
    \/ \E t \in Handlers : MakePlanner(t)
    \/ \E t \in Handlers : MakeTool(t)
    \/ \E t \in Handlers : SetToolPlanner(t)
    \/ \E t \in Handlers : ReturnPair(t)
    \/ \E t \in Handlers : ExecuteCheck(t)
    \/ \E t \in Handlers : LazyLoad(t)
    \/ \E t \in Handlers : RetrieveFails(t)
    \/ \E t \in Handlers : StartGenerate(t)
    \/ \E t \in Handlers : GenerateFails(t)
    \/ \E t \in Handlers : Answer(t)

ServerSpec == ServerInit /\ [][ServerNext]_vars

(***************************************************************************)
(* Properties of the pipeline.                                             *)
(***************************************************************************)
\* The invocation has a verdict, and it accepts (rejects) the plan's command.
Accepted == validation # None /\ validation[1].valid

Rejected == validation # None /\ ~validation[1].valid

Confirm == Constraint(payload[1], "confirm")

DryRun == Constraint(payload[1], "dryRun")

Responded == pc = "responded"

\* The invocation has appended exactly one record to the log it found.
OneRecordAppended == Len(log) = Len(log0) + 1 /\ SubSeq(log, 1, Len(log0)) = log0

LastRecord == log[Len(log)]

\* C1: safe_exec is called only after validate returned valid for the plan's
\* command, with exactly the string that was validated (plan.command); it is
\* never called on an invalid verdict, and never with a modifiedCommand.
C1_ExecOnlyValidated ==
    \A i \in 1..Len(spawned) :
        /\ Accepted
        /\ validated = <<spawned[i]>>
        /\ spawned[i] = plan[1]["command"]
        /\ validation[1] = validate(spawned[i], payload[1].val.namespace.val, rbac)
        /\ validation[1].modified_command # Some(spawned[i])

C1_Witness == pc = "executed" /\ spawned # <<>>

\* C2: no command that validate accepts has a verb outside the policy's
\* allowed verbs, whatever its prefix (kubectl, flux or gh).
C2_AcceptedVerbAllowed ==
    Accepted =>
        LET verb == extract_verb_resource(validated[1])[1]
        IN  Truthy(verb) => InList(verb[1], rbac.allowed_verbs)

\* C3: when the plan's command fails validation, the response carries the
\* operation id, the plan, valid = false with the validator's reasons and a
\* null result; exactly one record, of level ERROR, is appended; and no
\* subprocess is started, whatever confirm and dryRun are.
C3_RejectionAudited ==
    Rejected =>
        /\ spawned = <<>>
        /\ Responded =>
              /\ response[1] =
                    [operationId |-> operation_id[1], plan |-> plan[1],
                     validation |-> [valid |-> FALSE, reasons |-> validation[1].reasons],
                     result |-> None]
              /\ validation[1].reasons # <<>>
              /\ OneRecordAppended
              /\ LastRecord.level = "ERROR"
              /\ LastRecord.operation_id = operation_id[1]
              /\ LastRecord.command = plan[1]["command"]

C3_Witness == Responded /\ Rejected /\ Confirm /\ DryRun

\* C4: when the plan's command validates and confirm is true, with dryRun or
\* without, no subprocess is started, the log is unchanged, and the response
\* has status awaiting_confirmation and neither a result nor an exit code.
C4_ConfirmHalts ==
    (Accepted /\ Confirm) =>
        /\ spawned = <<>>
        /\ log = log0
        /\ result = None
        /\ Responded =>
              /\ response[1].status = "awaiting_confirmation"
              /\ "result" \notin DOMAIN response[1]
              /\ response[1] = AwaitingResponse(operation_id[1], plan[1])

C4_Witness == Responded /\ Accepted /\ Confirm /\ DryRun

\* C5: when the plan's command validates, dryRun is true and confirm is not
\* set, no subprocess is started, the result is fabricated (exit code 0,
\* duration 0, stdout naming the command) and exactly one record, of level
\* INFO, is appended.
C5_DryRunSimulates ==
    (Accepted /\ DryRun /\ ~Confirm) =>
        /\ spawned = <<>>
        /\ result # None
        /\ result[1].code = 0
        /\ result[1].duration = 0
        /\ result[1].stdout = "[DRY RUN] Command would execute: " \o plan[1]["command"]
        /\ Responded =>
              /\ OneRecordAppended
              /\ LastRecord.level = "INFO"
              /\ LastRecord.exit_code = 0
              /\ LastRecord.operation_id = operation_id[1]
              /\ response[1].result[1].code = 0

C5_Witness == Responded /\ Accepted /\ DryRun /\ ~Confirm /\ Len(log) = Len(log0) + 1

\* C6: a payload that does not conform to the schema (a required field
\* missing, intent or resource outside its enum, a wrong type) gets the
\* error response: no operation id is generated, retrieval, the planner, the
\* validator and the executor are not called, and the log is unchanged.
NonConforming == payload # None /\ payload[1] \in InvalidPayloads

C6_SchemaErrorStops ==
    /\ [](NonConforming =>
            /\ Responded
            /\ response = Some(SchemaErrorResponse)
            /\ "operationId" \notin DOMAIN response[1]
            /\ operation_id = None
            /\ context = None
            /\ genCalls = <<>>
            /\ plan = None
            /\ validated = <<>>
            /\ validation = None
            /\ spawned = <<>>
            /\ log = log0)
    /\ [][NonConforming' => issued' = issued /\ log' = log]_vars

C6_Witness ==
    Responded /\ NonConforming /\ payload[1].type = "object"
        /\ "name" \in DOMAIN payload[1].val /\ issued = 1

\* C7: when the plan's command validates and neither confirm nor dryRun is
\* set, safe_exec runs the plan's command exactly once and exactly one record
\* is appended after it returns, of level INFO if and only if the exit code
\* is 0 and of level ERROR otherwise (a timeout and a spawn failure included).
C7_ExecutedOnceAndAudited ==
    (Accepted /\ ~Confirm /\ ~DryRun) =>
        /\ pc \in {"validated", "executed"} => log = log0
        /\ pc = "validated" => spawned = <<>>
        /\ pc # "validated" => spawned = <<plan[1]["command"]>>
        /\ Responded =>
              /\ OneRecordAppended
              /\ LastRecord.operation_id = operation_id[1]
              /\ LastRecord.exit_code = result[1].code
              /\ LastRecord.level = "INFO" <=> result[1].code = 0
              /\ LastRecord.level = "ERROR" <=> result[1].code # 0

C7_Witness ==
    Responded /\ Accepted /\ ~Confirm /\ ~DryRun /\ Flag(result[1], "timeout")
        /\ LastRecord.level = "ERROR"

\* C8: the audit log only grows by appending: no step changes, removes or
\* truncates a record that is there; an invocation appends at most one
\* record; and no two records carry the same operation id.
C8_AppendOnlyLog ==
    /\ [][Len(log') >= Len(log) /\ SubSeq(log', 1, Len(log)) = log]_vars
    /\ [](Len(log) <= Len(log0) + 1)
    /\ [](\A i, j \in 1..Len(log) : i # j => log[i].operation_id # log[j].operation_id)

C8_Witness == Len(log) = 2 /\ log0 # <<>>

\* C9: the fallback plan is always rejected: validate returns invalid for
\* its command under every policy, safe_exec is not called, and a record of
\* level ERROR is written.
C9_FallbackRejected ==
    /\ \A r \in Policies, ns \in {"prod", "default"} :
          ~validate(FallbackPlan.command, ns, r).valid
    /\ plan = Some(FallbackPlan) =>
          /\ pc \in {"planned", "validation_failed", "logged", "responded"}
          /\ validation # None => ~validation[1].valid
          /\ spawned = <<>>
          /\ pc \in {"logged", "responded"} =>
                OneRecordAppended /\ LastRecord.level = "ERROR"
                    /\ LastRecord.command = FallbackPlan.command
          /\ Responded => response[1].result = None

C9_Witness == Responded /\ plan = Some(FallbackPlan) /\ DryRun

C11_PlanHasRequiredKeys ==
    /\ plan # None => {"intent", "namespace", "command", "summary"} \subseteq DOMAIN plan[1]
    /\ (plan # None /\ Len(genCalls) = 2 /\ ExtractPlan(genCalls[2].response) = None) =>
          /\ "error" \in DOMAIN plan[1]
          /\ plan[1]["error"] # ""
          /\ plan[1]["intent"] = "unknown"
          /\ plan[1]["namespace"] = "default"

C11_Witness ==
    /\ plan # None
    /\ Len(genCalls) = 2
    /\ ExtractPlan(genCalls[2].response) = None
    /\ re_search(genCalls[2].response) # None

(***************************************************************************)
(* Properties of CommandValidator.validate.                                *)
(***************************************************************************)
\* The call of validate has returned; its command, verdict, verb and resource.
Validated == validate_ret # None

ValidateCommand == validate_call[1].command

Verdict == validate_ret[1]

\* The command begins with a permitted CLI prefix, leading blanks aside.
PermittedPrefixes == {"kubectl", "flux", "gh"}

BeginsWithPermittedPrefix(c) == \E prefix \in PermittedPrefixes : StartsWith(Strip(c), prefix)

\* The command carries a namespace flag: a word -n or a word --namespace...
CarriesNamespaceFlag(c) ==
    \E i \in 1..Len(Split(c)) : Split(c)[i] = "-n" \/ StartsWith(Split(c)[i], "--namespace")

C13_NamespaceRequired ==
    (Validated /\ NamespaceScoped(rbac) /\ BeginsWithPermittedPrefix(ValidateCommand)) =>
        LET resource == extract_verb_resource(ValidateCommand)[2]
            exempt   == resource # None /\ InList(resource[1], cluster_scoped_resources)
        IN  /\ (~exempt /\ ~CarriesNamespaceFlag(ValidateCommand)) =>
                  ~Verdict.valid /\ InList(NamespaceReason, Verdict.reasons)
            /\ exempt => ~InList(NamespaceReason, Verdict.reasons)

\* C14: a kubectl command whose verb is delete and whose resource is pod,
\* with a namespace flag or without, its flags placed anywhere, is invalid
\* with a delete-related reason and has a modified_command that contains
\* the safe-alternative comment and no longer the delete operation.
C14_DeletePodRewritten ==
    (Validated /\ StartsWith(Strip(ValidateCommand), "kubectl")
       /\ extract_verb_resource(ValidateCommand) = <<Some("delete"), Some("pod")>>) =>
        /\ ~Verdict.valid
        /\ InList(GuardrailReason, Verdict.reasons)
        /\ Verdict.modified_command # None
        /\ Contains(Verdict.modified_command[1], GuardrailComment)
        /\ ~Contains(Verdict.modified_command[1], "delete")

\* C15: on every return path of validate, valid is true exactly when reasons
\* is empty, and modified_command is set only when the validator put a
\* command different from its input in its place.
C15_ValidIffNoReasons ==
    Validated =>
        /\ Verdict.valid <=> Verdict.reasons = <<>>
        /\ Verdict.modified_command # None =>
              /\ Verdict.modified_command[1] # ValidateCommand
              /\ Verdict.modified_command[1] =
                    ReplaceAll(ValidateCommand, "delete pod", GuardrailComment)

C15_Witness ==
    /\ Validated
    /\ Verdict.modified_command # None
    /\ rbac = DeletePolicy
    /\ Verdict.reasons = <<GuardrailReason>>

(***************************************************************************)
(* Properties of safe_exec.                                                *)
(***************************************************************************)
ExecReturned == exec_ret # None

ExecOutcome == exec_call[1].outcome

ExecResult == exec_ret[1]

\* C16: safe_exec always returns a result and never raises.  On a timeout
\* the result has code -1, empty stdout, a stderr that states the timeout and
\* timeout true; when the process cannot be run for another reason it has
\* code -1, an error message in stderr and timeout not true; a process that
\* completed reports its own exit code.
C16_AlwaysReturnsResult ==
    ExecReturned =>
        /\ {"code", "stdout", "stderr", "duration", "truncated"} \subseteq DOMAIN ExecResult
        /\ ExecOutcome.kind = "timeout" =>
              /\ ExecResult.code = -1
              /\ ExecResult.stdout = ""
              /\ ExecResult.stderr =
                    "Command timed out after " \o ToString(exec_call[1].timeout) \o "s"
              /\ Flag(ExecResult, "timeout")
        /\ ExecOutcome.kind = "error" =>
              /\ ExecResult.code = -1
              /\ ExecResult.stdout = ""
              /\ ExecResult.stderr = "Execution error: " \o ExecOutcome.message
              /\ ~Flag(ExecResult, "timeout")
        /\ ExecOutcome.kind = "completed" =>
              /\ ExecResult.code = ExecOutcome.returncode
              /\ ~Flag(ExecResult, "timeout")
        /\ ExecResult.code # -1 => ExecOutcome.kind = "completed"

C16_Witness == ExecReturned /\ ExecOutcome.kind = "error" /\ exec_call[1].timeout = 1

\* C17: the stdout safe_exec returns is never longer than the stdout cap and
\* the stderr never longer than the stderr cap, and truncated is true
\* exactly when one of the two streams was cut.
C17_OutputWithinCaps ==
    ExecReturned =>
        /\ Len(ExecResult.stdout) <= StdoutCap
        /\ Len(ExecResult.stderr) <= StderrCap
        /\ ExecOutcome.kind = "completed" =>
              (ExecResult.truncated <=>
                  (ExecResult.stdout # ExecOutcome.stdout
                      \/ ExecResult.stderr # ExecOutcome.stderr))

(***************************************************************************)
(* Properties of AgentLogger._digest.                                      *)
(***************************************************************************)
EllipsisMarker == " [...] "

\* The first and the last n characters of a text at least n long.
FirstChars(text, n) == SubSeq(text, 1, n)

LastChars(text, n) == SubSeq(text, Len(text) - n + 1, Len(text))

RECURSIVE CompleteLines(_)
CompleteLines(text) ==
    IF Find(text, "\n") = 0 THEN <<>>
    ELSE <<SubSeq(text, 1, Find(text, "\n") - 1)>>
             \o CompleteLines(SubSeq(text, Find(text, "\n") + 1, Len(text)))

RECURSIVE Unterminated(_)
Unterminated(text) ==
    IF Find(text, "\n") = 0 THEN text
    ELSE Unterminated(SubSeq(text, Find(text, "\n") + 1, Len(text)))

\* The record of a thread: its line without the newline.
RecordOf(t) == SubSeq(writers[t].line, 1, Len(writers[t].line) - 1)

\* C19: when several threads call log_action at the same time on the same
\* file, the record of every call that has returned is in the file as one
\* complete line, exactly once, and every line of the file is the record of
\* one call: no record is lost and no two records share a line.
C19_WholeLines ==
    writers # <<>> =>
        LET lines == CompleteLines(log_file)
        IN  /\ \A t \in Writers :
                  writers[t].pc = "done" =>
                      Cardinality({i \in 1..Len(lines) : lines[i] = RecordOf(t)}) = 1
            /\ \A i \in 1..Len(lines) :
                  \E t \in Writers : writers[t].pc = "done" /\ lines[i] = RecordOf(t)
            /\ Unterminated(log_file) = ""
            /\ Len(lines) = Cardinality({t \in Writers : writers[t].pc = "done"})

C19_Witness ==
    /\ writers # <<>>
    /\ \A t \in Writers : writers[t].pc = "done"
    /\ CompleteLines(log_file)[1] = RecordOf(NumWriters)
    /\ CompleteLines(log_file)[NumWriters] = RecordOf(1)
    /\ Contains(RecordOf(1), "\\n")

(***************************************************************************)
(* Properties of the server.                                               *)
(***************************************************************************)
\* The model loads load_model has made.
LoadModelLoads == {i \in 1..Len(loads) : loads[i].by = "load_model"}

\* C20: in a server that handles requests concurrently the model is loaded
\* at most once: however the requests that arrive before the first load has
\* finished interleave, load_model loads the model, and constructs the
\* planner and the tool, no more than one time.
C20_ModelLoadedOnce ==
    /\ Cardinality(LoadModelLoads) <= 1
    /\ Len(tools) <= 1

\* The handlers inside a generate() call.
Generating == {t \in Handlers : handlers[t].pc = "generate"}

\* C21: when the server handles several requests at once, the calls of the
\* generation function are mutually exclusive: no two handlers are inside
\* generate() on the same loaded model at the same time.
C21_GenerateExclusive ==
    \A s \in Generating : \A t \in Generating :
        s # t => handlers[s].generating # handlers[t].generating

\* The response k8s_exec_endpoint gives for an exception: a generic error
\* with the exception's text as its details.
InternalErrorResponse(exc) == [error |-> "Internal server error", details |-> exc]

\* C22: when the retrieval or the generation collaborator raises during an
\* invocation, the pipeline does not raise to its caller: the invocation ends
\* with a generic internal-error response that carries the details, and no
\* subprocess is started for it.
C22_FailureAnswered ==
    raised # None =>
        /\ pc = "responded"
        /\ response = Some(InternalErrorResponse(raised[1]))
        /\ spawned = <<>>

\* The file holds a YAML document with the entries validate subscripts.
WellFormedRbac(file) ==
    /\ file.kind = "yaml"
    /\ file.doc # None
    /\ {"allowed_verbs", "allowed_resources"} \subseteq DOMAIN file.doc[1]

\* C23: when a policy file is missing or malformed (unreadable, not YAML, or
\* without the allowed-verbs or allowed-resources entries) the construction
\* of the validator fails: a validator exists only for well-formed files, and
\* no exception about the policy is first raised by a validate call.
C23_DefectFatalAtConstruction ==
    /\ validator # None =>
          /\ WellFormedRbac(policy_file[1].rbac)
          /\ policy_file[1].namespaces.kind = "yaml"
    /\ config_error # None => config_error[1].at = "construct"

\* The stage of the invocation at a position of execute: the retry belongs to
\* planning, and a validated command is executed only when safe_exec has run.
Stage(at) ==
    IF at = "retrying" THEN "retrieved"
    ELSE IF at = "validated" THEN "planned"
    ELSE at

BranchStages == {"validation_failed", "awaiting_confirmation", "dry_run", "executed"}

\* The stages that may follow a stage in the fixed order.
StageSuccessors(stage) ==
    IF stage = "idle" THEN {"received"}
    ELSE IF stage = "received" THEN {"retrieved"}
    ELSE IF stage = "retrieved" THEN {"planned"}
    ELSE IF stage = "planned" THEN BranchStages
    ELSE IF stage \in BranchStages THEN {"logged"}
    ELSE IF stage = "logged" THEN {"responded"}
    ELSE IF stage = "responded" THEN {"idle"}
    ELSE {}

\* C24: every invocation with schema-valid input passes through the stages in
\* the fixed order RECEIVED, RETRIEVED, PLANNED, one of VALIDATION_FAILED,
\* AWAITING_CONFIRMATION, DRY_RUN or EXECUTED, LOGGED, RESPONDED: each change
\* of stage goes to the next stage of that order (input that fails the schema
\* is answered at once), and an invocation that was received eventually
\* reaches RESPONDED.
C24_StageOrder ==
    /\ [][Stage(pc') # Stage(pc) =>
            \/ Stage(pc') \in StageSuccessors(Stage(pc))
            \/ pc = "idle" /\ pc' = "responded" /\ ~SchemaValid(payload'[1])]_vars
    /\ (pc = "received" ~> pc = "responded")

\* The command is a rollout command with a sub-verb.
RolloutCommand(c) ==
    StartsWith(StripPrefix(c), "rollout") /\ Len(Split(StripPrefix(c))) >= 2

\* rollout and its sub-verb as one unit.
TwoTokenVerb(c) == Split(StripPrefix(c))[1] \o " " \o Split(StripPrefix(c))[2]

\* The verdict carries a reason about the verb.
HasVerbReason(verdict) ==
    \E i \in 1..Len(verdict.reasons) : StartsWith(verdict.reasons[i], "Verb '")

\* C25: for a rollout command the validator decides the verb allow-list on
\* the two-token unit, rollout plus its sub-verb: the verdict has a verb
\* reason exactly when that unit is not in the allowed verbs, so a policy that
\* allows only rollout restart accepts a restart and turns an undo down.
C25_RolloutSubVerb ==
    (/\ Validated
     /\ HasCliPrefix(ValidateCommand)
     /\ RolloutCommand(ValidateCommand)) =>
        (HasVerbReason(Verdict) <=> ~InList(TwoTokenVerb(ValidateCommand), rbac.allowed_verbs))

\* The verb and the resource validate extracts from the command.
ValidateVerb == extract_verb_resource(ValidateCommand)[1]

ValidateResource == extract_verb_resource(ValidateCommand)[2]

\* The entries of the forbidden-combination table that name the command's
\* verb and resource, in table order.
MatchingForbidden ==
    SelectSeq(ForbiddenCombinations(rbac),
              LAMBDA f : ValidateVerb = Some(f.verb) /\ ValidateResource = Some(f.resource))

\* The command goes on to the checks: neither early return answers it.
PassesPrefixCheck(c) == ~StartsWith(Strip(c), "gh") /\ BeginsWithPermittedPrefix(c)

\* The namespace check as validate makes it: the text of a flag is absent.
NamespaceTextAbsent(c) == ~Contains(c, "-n ") /\ ~Contains(c, "--namespace")

\* The reason of every check the command fails, in the fixed order.
ReasonsInOrder ==
    (IF ValidateVerb # None /\ ValidateVerb # Some("")
        /\ ~InList(ValidateVerb[1], rbac.allowed_verbs)
     THEN <<VerbReason(ValidateVerb[1], rbac)>> ELSE <<>>)
    \o (IF ValidateResource # None /\ ValidateResource # Some("")
           /\ ~InList(ValidateResource[1], rbac.allowed_resources)
        THEN <<ResourceReason(ValidateResource[1], rbac)>> ELSE <<>>)
    \o (IF NamespaceScoped(rbac) /\ NamespaceTextAbsent(ValidateCommand)
           /\ (ValidateResource = None
                  \/ ~InList(ValidateResource[1], cluster_scoped_resources))
        THEN <<NamespaceReason>> ELSE <<>>)
    \o [i \in 1..Len(MatchingForbidden) |-> "Forbidden: " \o MatchingForbidden[i].reason]
    \o (IF ValidateVerb = Some("delete") /\ ValidateResource = Some("pod")
        THEN <<GuardrailReason>> ELSE <<>>)

Depth(resp, i) ==
    Cardinality({k \in 1..i : resp[k] = LB}) - Cardinality({k \in 1..i : resp[k] = RB})

\* The position of the brace that balances the opening brace at i, 0 when
\* the object is never closed.
BalancingBrace(resp, i) ==
    LET closes == {j \in (i + 1)..Len(resp) :
                      resp[j] = RB /\ Depth(resp, j) = Depth(resp, i - 1)}
    IN  IF closes = {} THEN 0 ELSE CHOOSE j \in closes : \A m \in closes : j <= m

\* The first balanced top-level object of a response, None when it has none.
FirstBalancedObject(resp) ==
    LET starts == {i \in 1..Len(resp) :
                      resp[i] = LB /\ Depth(resp, i - 1) = 0 /\ BalancingBrace(resp, i) # 0}
    IN  IF starts = {} THEN None
        ELSE LET i == CHOOSE i \in starts : \A m \in starts : i <= m
             IN  Some(SubSeq(resp, i, BalancingBrace(resp, i)))

\* C27: for every raw model output the planner's extraction returns the first
\* balanced top-level brace-delimited object of the text, whatever surrounds
\* it and however deep its braces nest, never an object inside that one.
C27_FirstBalancedObject ==
    \A n \in 1..Len(genCalls) :
        re_search(genCalls[n].response) = FirstBalancedObject(genCalls[n].response)

\* The decoding policy the planner is to use for every call.
FixedDecodingPolicy ==
    [temp |-> "0.0", top_p |-> "1.0", repetition_penalty |-> Some("1.05"),
     max_tokens |-> 256]

\* The decoding arguments of a generate() call.
DecodingOf(call) ==
    [temp |-> call.temp, top_p |-> call.top_p,
     repetition_penalty |-> call.repetition_penalty, max_tokens |-> call.max_tokens]

\* C28: every call of the generation function the planner makes, the first
\* and the retry alike, uses the same fixed decoding policy: temperature 0.0,
\* top-p 1.0, repetition penalty 1.05 and at most 256 output tokens.
C28_FixedDecoding ==
    \A n \in 1..Len(genCalls) : DecodingOf(genCalls[n].call) = FixedDecodingPolicy

\* The namespace handed to validate as its second argument.
ValidateNamespace == validate_call[1].namespace

\* C29: the verdict of validate(command, namespace) depends on the command
\* and the loaded policy only: whatever namespace is passed, the valid flag,
\* the reasons and the modified command are the same, so a command whose -n
\* flag names another namespace than the requested one is accepted exactly
\* when it is with the requested one.
C29_NamespaceArgumentIgnored ==
    Validated =>
        \A other \in ValidatorNamespaces : validate(ValidateCommand, other, rbac) = Verdict

\* A command for namespace prod was validated for a request about namespace
\* default, and accepted.
C29_Witness ==
    /\ Validated
    /\ ValidateNamespace = "default"
    /\ Contains(ValidateCommand, "-n prod")
    /\ Verdict.valid

\* The handlers to which load_model has returned and that have not yet
\* called execute on what it returned.
Returned == {t \in Handlers : handlers[t].pc = "execute"}

\* C30: however concurrent requests interleave with the lazy initialisation,
\* load_model never returns a planner together with a missing tool: a handler
\* that gets a planner also gets a tool, and that tool is bound to a planner.
C30_PlannerComesWithTool ==
    \A t \in Returned :
        handlers[t].planner # None =>
            /\ handlers[t].tool # None
            /\ tools[handlers[t].tool[1]].planner # None

====
